---- MODULE Spec2Model ----
(***************************************************************************)
(* Model of the streaming-trace orchestration layer of UTD Career Spark:   *)
(*   backend/agentcore_orchestrator.py  AgentCoreOrchestrator              *)
(*   backend/main.py                    /api/plan event_generator          *)
(*                                                                         *)
(* Python dicts are modelled as functions whose DOMAIN is the set of keys  *)
(* present, so "key in d", d.get(key, default) and d[key] (KeyError) keep  *)
(* their meaning.  Opaque strings (names, ids) are TLA+ strings; strings   *)
(* the code inspects character by character (tool output text, knowledge   *)
(* base ids) are sequences of one-character strings; chunk payloads are    *)
(* sequences of byte values and decoded text is a sequence of code points. *)
(***************************************************************************)
EXTENDS Integers, Sequences, FiniteSets, TLC

\* ------------------------------------------------------------------------
\* Python values
\* ------------------------------------------------------------------------

\* Python's None, as returned by dict.get on a missing key.
None == "<None>"

\* The empty dict {} (and the empty list []).
EmptyDict == <<>>

\* d.get(k, default)
Get(d, k, default) == IF k \in DOMAIN d THEN d[k] ELSE default

\* d[k] = v
Put(d, k, v) == [x \in DOMAIN d \cup {k} |-> IF x = k THEN v ELSE d[x]]

\* del d[k]
Del(d, k) == [x \in DOMAIN d \ {k} |-> d[x]]

\* Truthiness of an optional string: None and "" are falsy.
Truthy(s) == s /= None /\ s /= ""

\* Mutant: the payload is not tested (the traceId alone decides).
NonEmptyUnchecked(d) == TRUE

\* Truthiness of a dict or list: empty is falsy.
NonEmpty(d) == DOMAIN d /= {}

\* str(x) as an f-string renders it: None prints as "None".
Str(x) == IF x = None THEN "None" ELSE x

\* Mutant: the call id without the counter.
CallIdUnnumbered(session_id, name, count) == session_id \o "_" \o Str(name)

\* f"{session_id}_{collab_name}_{count}"
CallId(session_id, name, count) ==
    session_id \o "_" \o Str(name) \o "_" \o ToString(count)

\* Mutant: one supervisor id for every session.
SupervisorIdShared(session_id) == "supervisor_session"

\* f"supervisor_{session_id}"
SupervisorId(session_id) == "supervisor_" \o session_id

\* ------------------------------------------------------------------------
\* Character-level string functions (str.lower, "x in s", str.replace,
\* str.title) over sequences of one-character strings.
\* ------------------------------------------------------------------------

UpperLetters ==
    <<"A","B","C","D","E","F","G","H","I","J","K","L","M",
      "N","O","P","Q","R","S","T","U","V","W","X","Y","Z">>

LowerLetters ==
    <<"a","b","c","d","e","f","g","h","i","j","k","l","m",
      "n","o","p","q","r","s","t","u","v","w","x","y","z">>

IsUpper(ch) == \E i \in 1..26 : UpperLetters[i] = ch
IsLower(ch) == \E i \in 1..26 : LowerLetters[i] = ch
IsCased(ch) == IsUpper(ch) \/ IsLower(ch)

LowerChar(ch) ==
    IF IsUpper(ch)
    THEN LowerLetters[CHOOSE i \in 1..26 : UpperLetters[i] = ch]
    ELSE ch

UpperChar(ch) ==
    IF IsLower(ch)
    THEN UpperLetters[CHOOSE i \in 1..26 : LowerLetters[i] = ch]
    ELSE ch

\* s.lower()
Lower(s) == [i \in 1..Len(s) |-> LowerChar(s[i])]

\* pat in s
Contains(s, pat) ==
    \E i \in 1..(Len(s) - Len(pat) + 1) : SubSeq(s, i, i + Len(pat) - 1) = pat

\* s.replace("_", " ")
ReplaceUnderscore(s) == [i \in 1..Len(s) |-> IF s[i] = "_" THEN " " ELSE s[i]]

\* s.title(): a cased character is upper-cased when the character before it
\* is not cased, and lower-cased otherwise.
Title(s) ==
    [i \in 1..Len(s) |->
        IF i > 1 /\ IsCased(s[i-1]) THEN LowerChar(s[i]) ELSE UpperChar(s[i])]

\* ------------------------------------------------------------------------
\* bytes.decode("utf-8"), strict: the code points of a byte sequence, or
\* DecodeError where Python raises UnicodeDecodeError.
\* ------------------------------------------------------------------------

DecodeError == <<-1>>

IsCont(b) == b >= 128 /\ b <= 191

\* Mutant: every byte taken as one character (latin-1).
Latin1Decode(bs) == bs

RECURSIVE Utf8Decode(_)
Utf8Decode(bs) ==
    IF bs = <<>> THEN <<>>
    ELSE LET b1 == bs[1]
             n  == Len(bs)
             Rest(k, cp) ==
                 LET r == Utf8Decode(SubSeq(bs, k + 1, n))
                 IN  IF r = DecodeError THEN DecodeError ELSE <<cp>> \o r
         IN  IF b1 < 128 THEN Rest(1, b1)
             ELSE IF b1 >= 194 /\ b1 <= 223 THEN
                 IF n >= 2 /\ IsCont(bs[2])
                 THEN Rest(2, (b1 - 192) * 64 + (bs[2] - 128))
                 ELSE DecodeError
             ELSE IF b1 >= 224 /\ b1 <= 239 THEN
                 IF /\ n >= 3 /\ IsCont(bs[2]) /\ IsCont(bs[3])
                    /\ (b1 = 224 => bs[2] >= 160)
                    /\ (b1 = 237 => bs[2] <= 159)
                 THEN Rest(3, (b1 - 224) * 4096 + (bs[2] - 128) * 64
                                 + (bs[3] - 128))
                 ELSE DecodeError
             ELSE IF b1 >= 240 /\ b1 <= 244 THEN
                 IF /\ n >= 4 /\ IsCont(bs[2]) /\ IsCont(bs[3]) /\ IsCont(bs[4])
                    /\ (b1 = 240 => bs[2] >= 144)
                    /\ (b1 = 244 => bs[2] <= 143)
                 THEN Rest(4, (b1 - 240) * 262144 + (bs[2] - 128) * 4096
                                 + (bs[3] - 128) * 64 + (bs[4] - 128))
                 ELSE DecodeError
             ELSE DecodeError

\* ------------------------------------------------------------------------
\* AgentCoreOrchestrator._parse_trace_event
\* ------------------------------------------------------------------------

\* Default texts of the action-group start branch.
UnknownActionGroup == <<"U","n","k","n","o","w","n"," ","A","c","t","i","o","n"," ","G","r","o","u","p">>
UnknownFunction == <<"U","n","k","n","o","w","n"," ","F","u","n","c","t","i","o","n">>
ExecutionTypeLambda == <<"L","A","M","B","D","A">>
UnknownKb == <<"u","n","k","n","o","w","n">>

\* Literal pieces of the result strings.
CompletedPrefix == <<"C","o","m","p","l","e","t","e","d"," ">>
RetrievedPrefix == <<"R","e","t","r","i","e","v","e","d"," ">>
ReferencesFrom == <<" ","r","e","f","e","r","e","n","c","e","s"," ","f","r","o","m"," ">>

\* Keywords and display names of the lost-correlation fallback.
KwJob == <<"j","o","b">>
KwHiring == <<"h","i","r","i","n","g">>
KwCourse == <<"c","o","u","r","s","e">>
KwCs == <<"c","s"," ">>
KwProject == <<"p","r","o","j","e","c","t">>
KwGithub == <<"g","i","t","h","u","b">>
KwNebula == <<"n","e","b","u","l","a">>
KwProfessor == <<"p","r","o","f","e","s","s","o","r">>
JobMarketTools == <<"J","o","b"," ","M","a","r","k","e","t"," ","T","o","o","l","s">>
CourseCatalogTools == <<"C","o","u","r","s","e"," ","C","a","t","a","l","o","g"," ","T","o","o","l","s">>
ProjectTools == <<"P","r","o","j","e","c","t"," ","T","o","o","l","s">>
NebulaApiTools == <<"N","e","b","u","l","a"," ","A","P","I"," ","T","o","o","l","s">>
LambdaTool == <<"L","a","m","b","d","a"," ","T","o","o","l">>

\* kb_display_names and the default raw knowledge-base name.
KbDefault == <<"k","n","o","w","l","e","d","g","e","_","b","a","s","e">>
KbCourseCatalog == <<"c","o","u","r","s","e","_","c","a","t","a","l","o","g">>
KbAcademicDatabase == <<"a","c","a","d","e","m","i","c","_","d","a","t","a","b","a","s","e">>
KnowledgeBase == <<"K","n","o","w","l","e","d","g","e"," ","B","a","s","e">>
CourseCatalog == <<"C","o","u","r","s","e"," ","C","a","t","a","l","o","g">>
AcademicDatabase == <<"A","c","a","d","e","m","i","c"," ","D","a","t","a","b","a","s","e">>

\* str(n) for a natural number, as characters.
DigitChars == <<"0","1","2","3","4","5","6","7","8","9">>

RECURSIVE IntChars(_)
IntChars(n) ==
    IF n < 10 THEN <<DigitChars[n + 1]>>
    ELSE IntChars(n \div 10) \o <<DigitChars[(n % 10) + 1]>>

\* d.update(e): the keys of e override those of d.
Update(d, e) ==
    [x \in DOMAIN d \cup DOMAIN e |-> IF x \in DOMAIN e THEN e[x] ELSE d[x]]

\* The parameters list converted to a dict: entries lacking "name" or
\* "value" are skipped and a later entry overrides an earlier one.
ParametersDict(param_list) ==
    LET ok == {i \in 1..Len(param_list) :
                  /\ "name" \in DOMAIN param_list[i]
                  /\ "value" \in DOMAIN param_list[i]}
        last(n) == CHOOSE i \in ok :
                      /\ param_list[i].name = n
                      /\ \A j \in ok : param_list[j].name = n => j <= i
    IN  [n \in {param_list[i].name : i \in ok} |-> param_list[last(n)].value]

\* result["tool_calls"] = result.get("tool_calls", []); append(entry)
AppendToolCall(result, entry) ==
    Put(result, "tool_calls", Append(Get(result, "tool_calls", <<>>), entry))

\* Mutant: the course keywords are tested before the job keywords.
InferDisplayNameCourseFirst(output_text) ==
    LET low == Lower(output_text)
    IN  IF Contains(low, KwCourse) \/ Contains(low, KwCs)
            THEN CourseCatalogTools
        ELSE IF Contains(low, KwJob) \/ Contains(low, KwHiring)
            THEN JobMarketTools
        ELSE IF Contains(low, KwProject) \/ Contains(low, KwGithub)
            THEN ProjectTools
        ELSE IF Contains(low, KwNebula) \/ Contains(low, KwProfessor)
            THEN NebulaApiTools
        ELSE LambdaTool

\* The display name the fallback infers from the output text.
InferDisplayName(output_text) ==
    LET low == Lower(output_text)
    IN  IF Contains(low, KwJob) \/ Contains(low, KwHiring)
            THEN JobMarketTools
        ELSE IF Contains(low, KwCourse) \/ Contains(low, KwCs)
            THEN CourseCatalogTools
        ELSE IF Contains(low, KwProject) \/ Contains(low, KwGithub)
            THEN ProjectTools
        ELSE IF Contains(low, KwNebula) \/ Contains(low, KwProfessor)
            THEN NebulaApiTools
        ELSE LambdaTool

\* kb_display_names.get(raw, raw.replace("_", " ").title())
KbDisplayName(raw_kb_name) ==
    IF raw_kb_name = KbDefault THEN KnowledgeBase
    ELSE IF raw_kb_name = KbCourseCatalog THEN CourseCatalog
    ELSE IF raw_kb_name = KbAcademicDatabase THEN AcademicDatabase
    ELSE Title(ReplaceUnderscore(raw_kb_name))

\* Mutant: the timing fields are dropped.
WithMetadataUntimed(tool_call, metadata) == tool_call

\* The optional timing fields a matched completion copies from metadata.
WithMetadata(tool_call, metadata) ==
    LET t1 == IF "totalTimeMs" \in DOMAIN metadata
              THEN Put(tool_call, "execution_time_ms", metadata.totalTimeMs)
              ELSE tool_call
    IN  IF Truthy(Get(metadata, "clientRequestId", None))
        THEN Put(t1, "client_request_id", metadata.clientRequestId)
        ELSE t1

\* Mutant: the id is added for a collaborator that was never started too.
WithOuterCallIdAnyName(result, collaborator_name, session_id, counts) ==
    IF Truthy(collaborator_name)
    THEN Put(result, "agent_call_id",
             CallId(session_id, collaborator_name,
                    Get(counts, collaborator_name, 0)))
    ELSE result

\* The agent_call_id every trace of a started collaborator carries.
WithOuterCallId(result, collaborator_name, session_id, counts) ==
    IF Truthy(collaborator_name) /\ collaborator_name \in DOMAIN counts
    THEN Put(result, "agent_call_id",
             CallId(session_id, collaborator_name, counts[collaborator_name]))
    ELSE result

\* if "rationale" in orch and orch["rationale"].get("text")
ParseRationale(orch, st) ==
    IF "rationale" \in DOMAIN orch
       /\ Truthy(Get(orch.rationale, "text", None))
    THEN [st EXCEPT !.result =
             Update(@, [reasoning |-> orch.rationale.text,
                        status |-> "progress"])]
    ELSE st

\* Mutant counter: one counter shared by all names.
NextCountShared(counts, collab_name) ==
    LET RECURSIVE Total(_)
        Total(S) == IF S = {} THEN 0
                    ELSE LET n == CHOOSE n \in S : TRUE
                         IN  counts[n] + Total(S \ {n})
    IN  Total(DOMAIN counts) + 1

\* count = self.collaborator_invocation_counts.get(collab_name, 0) + 1
NextCount(counts, collab_name) == Get(counts, collab_name, 0) + 1

\* Mutant: a start for a traceId that is pending keeps the first entry.
StorePendingKeepFirst(pending, trace_id, entry) ==
    IF trace_id \in DOMAIN pending THEN pending
    ELSE Put(pending, trace_id, entry)

\* Mutant: the table keeps only the entry stored last.
StorePendingAlone(pending, trace_id, entry) == [x \in {trace_id} |-> entry]

\* self.action_group_invocations[trace_id] = {...}
StorePending(pending, trace_id, entry) == Put(pending, trace_id, entry)

\* if "invocationInput" in orch: the three invocation types.
ParseInvocationInput(orch, session_id, st) ==
    IF "invocationInput" \notin DOMAIN orch THEN st
    ELSE
    LET inv == orch.invocationInput
        invocationType == Get(inv, "invocationType", None)
        trace_id == Get(inv, "traceId", None)
    IN
    IF invocationType = "AGENT_COLLABORATOR" THEN
        LET collab_input == Get(inv, "agentCollaboratorInvocationInput", EmptyDict)
            collab_name == Get(collab_input, "agentCollaboratorName", None)
            count == NextCount(st.counts, collab_name)
        IN  [st EXCEPT
               !.counts = Put(@, collab_name, count),
               !.result = Update(@,
                   [agent_call_id |-> CallId(session_id, collab_name, count),
                    calling_collaborator |-> collab_name,
                    input_text |-> Get(Get(collab_input, "input", EmptyDict),
                                       "text", None),
                    status |-> "started"])]
    ELSE IF invocationType = "ACTION_GROUP" THEN
        LET action_input == Get(inv, "actionGroupInvocationInput", EmptyDict)
        IN  IF Truthy(trace_id) /\ NonEmpty(action_input) THEN
              LET action_group_name ==
                      Get(action_input, "actionGroupName", UnknownActionGroup)
                  function_name == Get(action_input, "function", UnknownFunction)
                  api_path == Get(action_input, "apiPath", "")
                  verb == Get(action_input, "verb", "")
                  execution_type == Get(action_input, "executionType", ExecutionTypeLambda)
                  parameters ==
                      ParametersDict(Get(action_input, "parameters", <<>>))
              IN  [st EXCEPT
                     !.pending = StorePending(@, trace_id,
                         [actionGroupName |-> action_group_name,
                          function |-> function_name,
                          apiPath |-> api_path,
                          verb |-> verb,
                          executionType |-> execution_type,
                          parameters |-> parameters,
                          sessionId |-> session_id]),
                     !.result = AppendToolCall(@,
                         [type |-> "action_group",
                          name |-> action_group_name,
                          function |-> function_name,
                          status |-> "calling",
                          parameters |-> parameters,
                          api_path |-> api_path,
                          verb |-> verb,
                          trace_id |-> trace_id])]
            ELSE st
    ELSE IF invocationType = "KNOWLEDGE_BASE" THEN
        LET kb_input == Get(inv, "knowledgeBaseLookupInput", EmptyDict)
        IN  IF Truthy(trace_id) /\ NonEmpty(kb_input) THEN
              LET kb_id == Get(kb_input, "knowledgeBaseId", UnknownKb)
                  query_text == Get(kb_input, "text", "")
              IN  [st EXCEPT
                     !.pending = StorePending(@, trace_id,
                         [knowledgeBaseId |-> kb_id,
                          query |-> query_text,
                          sessionId |-> session_id]),
                     !.result = AppendToolCall(@,
                         [type |-> "knowledge_base",
                          name |-> Title(ReplaceUnderscore(kb_id)),
                          status |-> "calling",
                          query |-> query_text,
                          trace_id |-> trace_id])]
            ELSE st
    ELSE st

\* Mutant: the matched entry is left in the table.
ConsumePendingKeep(pending, trace_id) == pending

\* del self.action_group_invocations[trace_id]
ConsumePending(pending, trace_id) == Del(pending, trace_id)

\* if "observation" in orch: the three observation types.  A stored entry
\* of the other kind lacks the keys the branch subscripts: KeyError.
ParseObservation(orch, session_id, st) ==
    IF "observation" \notin DOMAIN orch THEN st
    ELSE
    LET obs == orch.observation
        type == Get(obs, "type", None)
        trace_id == Get(obs, "traceId", None)
        found == Truthy(trace_id) /\ trace_id \in DOMAIN st.pending
    IN
    IF type = "AGENT_COLLABORATOR" THEN
        LET collab_output == Get(obs, "agentCollaboratorInvocationOutput", EmptyDict)
            collab_name == Get(collab_output, "agentCollaboratorName", None)
            r1 == Update(st.result,
                    [collaborator_response |->
                        [agent |-> collab_name,
                         output |-> Get(Get(collab_output, "output", EmptyDict),
                                        "text", None)],
                     status |-> "completed"])
        IN  [st EXCEPT !.result =
               IF Truthy(collab_name) /\ collab_name \in DOMAIN st.counts
               THEN Put(r1, "agent_call_id",
                        CallId(session_id, collab_name, st.counts[collab_name]))
               ELSE r1]
    ELSE IF type = "ACTION_GROUP" THEN
        LET action_inv == Get(obs, "actionGroupInvocationOutput", EmptyDict)
            output_text == Get(action_inv, "text", <<>>)
        IN  IF found THEN
              LET stored_invocation == st.pending[trace_id]
              IN  IF "actionGroupName" \notin DOMAIN stored_invocation
                  THEN [st EXCEPT !.raised = TRUE]
                  ELSE
                  LET base == [type |-> "action_group",
                               name |-> stored_invocation.actionGroupName,
                               function |-> stored_invocation.function,
                               status |-> "completed",
                               parameters |-> stored_invocation.parameters,
                               api_path |-> stored_invocation.apiPath,
                               verb |-> stored_invocation.verb,
                               trace_id |-> trace_id,
                               result |-> CompletedPrefix
                                   \o stored_invocation.actionGroupName
                                   \o <<".">> \o stored_invocation.function]
                      timed == WithMetadata(base,
                                   Get(action_inv, "metadata", EmptyDict))
                      tool_call == IF NonEmpty(output_text)
                                   THEN Put(timed, "response", output_text)
                                   ELSE timed
                  IN  [st EXCEPT
                         !.result = AppendToolCall(@, tool_call),
                         !.pending = ConsumePending(@, trace_id)]
            ELSE
              LET display_name == InferDisplayName(output_text)
              IN  [st EXCEPT !.result = AppendToolCall(@,
                      [type |-> "action_group",
                       name |-> display_name,
                       status |-> "completed",
                       result |-> CompletedPrefix \o display_name])]
    ELSE IF type = "KNOWLEDGE_BASE" THEN
        LET kb_output == Get(obs, "knowledgeBaseLookupOutput", EmptyDict)
        IN  IF found THEN
              LET stored_invocation == st.pending[trace_id]
              IN  IF "knowledgeBaseId" \notin DOMAIN stored_invocation
                  THEN [st EXCEPT !.raised = TRUE]
                  ELSE
                  LET retrieved_references ==
                          Get(kb_output, "retrievedReferences", <<>>)
                      base == [type |-> "knowledge_base",
                               name |-> Title(ReplaceUnderscore(
                                           stored_invocation.knowledgeBaseId)),
                               status |-> "completed",
                               query |-> stored_invocation.query,
                               trace_id |-> trace_id,
                               result |-> RetrievedPrefix
                                   \o IntChars(Len(retrieved_references))
                                   \o ReferencesFrom
                                   \o stored_invocation.knowledgeBaseId]
                      timed == WithMetadata(base,
                                   Get(kb_output, "metadata", EmptyDict))
                      tool_call == IF NonEmpty(retrieved_references)
                                   THEN Put(timed, "references_count",
                                            Len(retrieved_references))
                                   ELSE timed
                  IN  [st EXCEPT
                         !.result = AppendToolCall(@, tool_call),
                         !.pending = ConsumePending(@, trace_id)]
            ELSE
              LET name1 == Get(kb_output, "knowledgeBaseName", <<>>)
                  name2 == Get(kb_output, "knowledgeBaseId", <<>>)
                  raw_kb_name == IF NonEmpty(name1) THEN name1
                                 ELSE IF NonEmpty(name2) THEN name2
                                 ELSE KbDefault
                  display_name == KbDisplayName(raw_kb_name)
              IN  [st EXCEPT !.result = AppendToolCall(@,
                      [type |-> "knowledge_base",
                       name |-> display_name,
                       status |-> "completed",
                       result |-> CompletedPrefix \o display_name])]
    ELSE st

\* Mutant: the orchestration payload is handled before the failure.
ParseTraceEventFailureLast(event, session_id, counts, pending) ==
    LET trace_part == Get(event, "trace", EmptyDict)
        trace_data == Get(trace_part, "trace", EmptyDict)
        collaborator_name == Get(trace_part, "collaboratorName", None)
        result0 == [agent |-> IF Truthy(collaborator_name)
                              THEN "Collaborator: " \o collaborator_name
                              ELSE "Supervisor",
                    status |-> "progress",
                    supervisor_id |-> SupervisorId(session_id)]
        st0 == [result |-> WithOuterCallId(result0, collaborator_name,
                                           session_id, counts),
                counts |-> counts,
                pending |-> pending,
                raised |-> FALSE]
        orch == Get(trace_data, "orchestrationTrace", EmptyDict)
        st3 == ParseObservation(orch, session_id,
                   ParseInvocationInput(orch, session_id,
                       ParseRationale(orch, st0)))
    IN  IF "failureTrace" \in DOMAIN trace_data
        THEN [st3 EXCEPT !.result =
                 Update(@, [status |-> "failed",
                            failure_reason |->
                                Get(trace_data.failureTrace, "failureReason",
                                    "Unknown error")])]
        ELSE st3

\* _parse_trace_event(event, session_id), reading and writing the two
\* tables: the record it returns (result), the tables it leaves (counts,
\* pending) and whether it raised instead of returning (raised).
_parse_trace_event(event, session_id, counts, pending) ==
    LET trace_part == Get(event, "trace", EmptyDict)
        trace_data == Get(trace_part, "trace", EmptyDict)
        collaborator_name == Get(trace_part, "collaboratorName", None)
        agent_label == IF Truthy(collaborator_name)
                       THEN "Collaborator: " \o collaborator_name
                       ELSE "Supervisor"
        result0 == [agent |-> agent_label,
                    status |-> "progress",
                    supervisor_id |-> SupervisorId(session_id)]
        st0 == [result |-> WithOuterCallId(result0, collaborator_name,
                                           session_id, counts),
                counts |-> counts,
                pending |-> pending,
                raised |-> FALSE]
    IN  IF "failureTrace" \in DOMAIN trace_data THEN
            [st0 EXCEPT !.result =
                Update(@, [status |-> "failed",
                           failure_reason |->
                               Get(trace_data.failureTrace, "failureReason",
                                   "Unknown error")])]
        ELSE IF "orchestrationTrace" \in DOMAIN trace_data THEN
            LET orch == trace_data.orchestrationTrace
                st1 == ParseRationale(orch, st0)
                st2 == ParseInvocationInput(orch, session_id, st1)
            IN  ParseObservation(orch, session_id, st2)
        ELSE st0

\* has_content: the keys that make a returned record worth yielding.
has_content(trace_data) ==
    \/ "reasoning" \in DOMAIN trace_data
    \/ "calling_collaborator" \in DOMAIN trace_data
    \/ "collaborator_response" \in DOMAIN trace_data
    \/ "tool_calls" \in DOMAIN trace_data

\* One iteration of "async for event in response['completion']": the output
\* events yielded for the event (none or one), the record the parser
\* returned (none for an event that is not a trace), the tables afterwards,
\* and whether the iteration raised.
StreamStep(event, session_id, counts, pending) ==
    IF "chunk" \in DOMAIN event THEN
        LET text == Utf8Decode(event.chunk.bytes)
        IN  [yield |-> IF text = DecodeError THEN <<>>
                       ELSE <<[type |-> "chunk", text |-> text,
                               session_id |-> session_id]>>,
             record |-> <<>>,
             counts |-> counts,
             pending |-> pending,
             raised |-> (text = DecodeError)]
    ELSE IF "trace" \in DOMAIN event THEN
        LET st == _parse_trace_event(event, session_id, counts, pending)
        IN  [yield |-> IF ~st.raised /\ has_content(st.result)
                       THEN <<[type |-> "trace", data |-> st.result,
                               session_id |-> session_id]>>
                       ELSE <<>>,
             record |-> IF st.raised THEN <<>> ELSE <<st.result>>,
             counts |-> st.counts,
             pending |-> st.pending,
             raised |-> st.raised]
    ELSE [yield |-> <<>>, record |-> <<>>, counts |-> counts,
          pending |-> pending, raised |-> FALSE]

\* delay = base_delay * (2 ** attempt)
max_retries == 3
base_delay == 1

\* Mutant: the same delay before every retry.
RetryDelayConstant(attempt) == base_delay

RetryDelay(attempt) == base_delay * (2 ^ attempt)

\* Mutant: the last allowed attempt is followed by a sleep as well.
ShouldRetryLastAttempt(throttling, attempt) ==
    throttling /\ attempt < max_retries

\* Mutant: every failure of invoke_agent is retried.
ShouldRetryAnyError(throttling, attempt) == attempt < max_retries - 1

\* "throttlingException" in str(e) and attempt < max_retries - 1
ShouldRetry(throttling, attempt) == throttling /\ attempt < max_retries - 1

\* ------------------------------------------------------------------------
\* The request invoke_supervisor_stream sends.  A text is kept as the
\* sequence of the pieces it is concatenated from.
\* ------------------------------------------------------------------------

\* os.getenv("AGENTCORE_PLANNER_AGENT_ID"), os.getenv("AGENTCORE_PLANNER_ALIAS_ID")
planner_id == "PLANNER_AGENT_ID"
planner_alias_id == "PLANNER_ALIAS_ID"

\* user_context = None, which "if user_context" treats as it treats {}.
NoContext == EmptyDict

\* "\n".join(parts)
RECURSIVE JoinLines(_)
JoinLines(parts) ==
    IF Len(parts) = 0 THEN ""
    ELSE IF Len(parts) = 1 THEN parts[1]
    ELSE parts[1] \o "\n" \o JoinLines(Tail(parts))

\* _build_input_text(goal, user_context)
_build_input_text(goal_text, context) ==
    IF NonEmpty(context) THEN
        LET part(key, label) ==
                IF Truthy(Get(context, key, None))
                THEN <<label \o context[key]>> ELSE <<>>
            context_parts ==
                part("user_name", "Student Name: ")
                \o part("user_major", "Major: ")
                \o part("graduation_year", "Expected Graduation: ")
                \o part("skills", "Current Skills: ")
            context_str == JoinLines(context_parts)
        IN  <<context_str \o "\n\nStudent Request: ">> \o goal_text
    ELSE <<"Create a comprehensive career plan for: ">> \o goal_text

\* The keys of the sessionAttributes dict.
SessionAttributeKeys ==
    {"user_name", "user_email", "user_phone", "user_location", "user_major",
     "graduation_year", "gpa", "career_goal", "bio", "student_year",
     "courses_taken", "time_commitment", "skills", "experience"}

\* _build_session_attributes(user_context): user_context.get(key) or ""
_build_session_attributes(context) ==
    [key \in SessionAttributeKeys |->
        IF Truthy(Get(context, key, None)) THEN context[key] ELSE ""]

\* ------------------------------------------------------------------------
\* Bounds and inputs
\* ------------------------------------------------------------------------

\* Number of /api/plan requests served by the one orchestrator instance.
NumCalls == 2

\* Upstream events delivered in total, over all requests.
MaxEvents == 3

\* Number of requests in SpecTransport.
NumTransportCalls == 1

\* Upstream events of the one request of the single-request specifications.
ScenarioLen == 4

Calls == 1..NumCalls

\* The session id of each request.
session_id(c) == IF c = 1 THEN "abc" ELSE "s" \o ToString(c)

\* request.goal values: empty, blank, and a real goal.
Goals == {<<>>, <<" ">>, <<"S","W","E">>}

\* The user_context dicts api_plan_stream builds: every key present, ""
\* for a profile field the request left out.
UserContext(fields) ==
    [key \in SessionAttributeKeys |-> Get(fields, key, "")]

UserContexts ==
    { UserContext([user_name |-> "Ana", user_major |-> "CS"]),
      UserContext([skills |-> "Python", gpa |-> "3.8"]) }

\* goal.strip() is empty
IsBlank(goal) == \A i \in 1..Len(goal) : goal[i] = " "

NebulaAPI == <<"N","e","b","u","l","a","A","P","I">>
get_course_information == <<"g","e","t","_","c","o","u","r","s","e","_","i","n","f","o","r","m","a","t","i","o","n">>
Cs1337Found == <<"C","S"," ","1","3","3","7"," ","f","o","u","n","d">>

\* b"Here is your plan: ..."
PlanBytes == <<72,101,114,101,32,105,115,32,121,111,117,114,32,112,108,97,
               110,58,32,46,46,46>>

\* "Hé!" in UTF-8 (a two-byte character between two ASCII ones).
AccentBytes == <<72, 195, 169, 33>>

\* Upstream events, in the shape the agent runtime delivers them.
ChunkEvent(bytes) == [chunk |-> [bytes |-> bytes]]

OrchEvent(orch) == [trace |-> [trace |-> [orchestrationTrace |-> orch]]]

ReasoningEvent(text) == OrchEvent([rationale |-> [text |-> text]])

CollabStartEvent(name) ==
    OrchEvent([invocationInput |->
        [invocationType |-> "AGENT_COLLABORATOR",
         agentCollaboratorInvocationInput |->
            [agentCollaboratorName |-> name,
             input |-> [text |-> "find roles"]]]])

NamelessCollabStartEvent ==
    OrchEvent([invocationInput |->
        [invocationType |-> "AGENT_COLLABORATOR",
         agentCollaboratorInvocationInput |-> [input |-> [text |-> "find roles"]]]])

CollabDoneEvent(name) ==
    OrchEvent([observation |->
        [type |-> "AGENT_COLLABORATOR",
         agentCollaboratorInvocationOutput |->
            [agentCollaboratorName |-> name,
             output |-> [text |-> "3 roles"]]]])

ToolStartEvent(trace_id) ==
    OrchEvent([invocationInput |->
        [invocationType |-> "ACTION_GROUP",
         traceId |-> trace_id,
         actionGroupInvocationInput |->
            [actionGroupName |-> NebulaAPI,
             function |-> get_course_information]]])

ToolStartNoTraceIdEvent ==
    OrchEvent([invocationInput |->
        [invocationType |-> "ACTION_GROUP",
         actionGroupInvocationInput |->
            [actionGroupName |-> NebulaAPI,
             function |-> get_course_information]]])

ToolDoneEvent(trace_id) ==
    OrchEvent([observation |->
        [type |-> "ACTION_GROUP",
         traceId |-> trace_id,
         actionGroupInvocationOutput |->
            [text |-> Cs1337Found,
             metadata |-> [totalTimeMs |-> 120]]]])

FailureEvent(reason) ==
    [trace |-> [trace |-> [failureTrace |-> [failureReason |-> reason]]]]

\* An event that is neither a text fragment nor a trace.
OtherEvent == [returnControl |-> [invocationId |-> "r1"]]

\* The events the upstream may deliver in Spec.
CoreEvents ==
    { ChunkEvent(AccentBytes),
      ReasoningEvent(""),
      CollabStartEvent("JobMarketAgent"),
      CollabStartEvent("CourseAgent"),
      CollabDoneEvent("JobMarketAgent"),
      ToolStartEvent("t1"),
      ToolDoneEvent("t1") }

\* The events the upstream may deliver in SpecFilter: failures, events that
\* carry nothing to report, and events that do.
FilterEvents ==
    { FailureEvent("model timeout"),
      ReasoningEvent("Let me check course data"),
      ReasoningEvent(""),
      NamelessCollabStartEvent,
      ToolStartNoTraceIdEvent,
      ToolDoneEvent("t1"),
      OtherEvent }

\* ------------------------------------------------------------------------
\* State
\* ------------------------------------------------------------------------

VARIABLES
    collaborator_invocation_counts, \* self.collaborator_invocation_counts
    action_group_invocations,       \* self.action_group_invocations
    pc,             \* where each /api/plan request is
    goal,           \* request.goal of each request
    user_context,   \* the user_context api_plan_stream built for the request
    invoke_params,  \* the parameters the request passes to invoke_agent
    runtime_client, \* whether the request holds its bedrock-agent-runtime client
    tries,          \* outcome of each invoke_agent attempt of the request
    slept,          \* the delays the request has passed to asyncio.sleep
    consumed,       \* the upstream events the request has consumed, in order
    parsed,         \* for each consumed event, the record _parse_trace_event returned for it
    yielded,        \* for each consumed event, the output events yielded for it
    out,            \* the output events of invoke_supervisor_stream, in order
    sse,            \* the SSE frames of event_generator, in order
    _available,         \* AgentCoreRuntime._available
    _runtime_client,    \* AgentCoreRuntime._runtime_client
    _memory_id,         \* AgentCoreRuntime._memory_id
    create_event_calls, \* the create_event calls made on the memory client, in order
    runtime_ops         \* the public calls made on the AgentCoreRuntime, in order

vars == <<collaborator_invocation_counts, action_group_invocations, pc, goal,
          user_context, invoke_params, runtime_client, tries, slept, consumed, parsed, yielded, out, sse,
          _available, _runtime_client, _memory_id, create_event_calls,
          runtime_ops>>

\* The state of the module-level AgentCoreRuntime and the calls made on it.
memory == <<_available, _runtime_client, _memory_id, create_event_calls,
            runtime_ops>>

tables == <<collaborator_invocation_counts, action_group_invocations>>

\* Requests whose generator is suspended at an await or a yield.
Active == {"session_sent", "invoking", "sleeping", "streaming"}

\* Requests that have ended.
Ended == {"rejected", "done", "error", "closed"}

TotalConsumed == LET RECURSIVE Sum(_)
                     Sum(c) == IF c = 0 THEN 0 ELSE Len(consumed[c]) + Sum(c - 1)
                 IN  Sum(NumCalls)

\* f"data: {json.dumps(event)}\n\n"
SseFrame(event) == [data |-> event]

SessionFrame(c) == SseFrame([type |-> "session", session_id |-> session_id(c)])
DoneFrame == SseFrame([type |-> "done"])
ErrorFrame(message) == SseFrame([type |-> "error", message |-> message])

\* The requests and the orchestrator before any request has arrived.
InitServer ==
    /\ collaborator_invocation_counts = EmptyDict
    /\ action_group_invocations = EmptyDict
    /\ pc = [c \in Calls |-> "request"]
    /\ goal = [c \in Calls |-> <<>>]
    /\ user_context = [c \in Calls |-> NoContext]
    /\ invoke_params = [c \in Calls |-> EmptyDict]
    /\ runtime_client = [c \in Calls |-> FALSE]
    /\ tries = [c \in Calls |-> <<>>]
    /\ slept = [c \in Calls |-> <<>>]
    /\ consumed = [c \in Calls |-> <<>>]
    /\ parsed = [c \in Calls |-> <<>>]
    /\ yielded = [c \in Calls |-> <<>>]
    /\ out = [c \in Calls |-> <<>>]
    /\ sse = [c \in Calls |-> <<>>]

\* AgentCoreRuntime.__init__ with USE_AGENTCORE unset: _bootstrap is not
\* called and the runtime stays disabled.
InitMemoryDisabled ==
    /\ _available = FALSE
    /\ _runtime_client = None
    /\ _memory_id = None
    /\ create_event_calls = <<>>
    /\ runtime_ops = <<>>

Init == InitServer /\ InitMemoryDisabled

\* ------------------------------------------------------------------------
\* Operations
\* ------------------------------------------------------------------------

\* Mutant: the exception ends the stream without an error frame.
RaiseSilently(c, message) ==
    /\ pc' = [pc EXCEPT ![c] = "error"]
    /\ runtime_client' = [runtime_client EXCEPT ![c] = FALSE]
    /\ UNCHANGED sse

\* An exception leaves invoke_supervisor_stream: the async with block
\* releases the client and event_generator's handler yields the error frame.
Raise(c, message) ==
    /\ pc' = [pc EXCEPT ![c] = "error"]
    /\ runtime_client' = [runtime_client EXCEPT ![c] = FALSE]
    /\ sse' = [sse EXCEPT ![c] = Append(@, ErrorFrame(message))]

\* api_plan_stream with a blank goal: HTTP 400, no stream.
RejectRequest(c) ==
    /\ pc[c] = "request"
    /\ \E g \in Goals :
        /\ IsBlank(g)
        /\ goal' = [goal EXCEPT ![c] = g]
    /\ pc' = [pc EXCEPT ![c] = "rejected"]
    /\ UNCHANGED <<tables, user_context, invoke_params, runtime_client, tries,
                   slept, consumed, parsed, yielded, out, sse>>
    /\ UNCHANGED memory

\* api_plan_stream with a goal and no profile field: user_context stays
\* None and event_generator yields the session frame.
StartRequest(c) ==
    /\ pc[c] = "request"
    /\ \E g \in Goals :
        /\ ~IsBlank(g)
        /\ goal' = [goal EXCEPT ![c] = g]
    /\ pc' = [pc EXCEPT ![c] = "session_sent"]
    /\ sse' = [sse EXCEPT ![c] = <<SessionFrame(c)>>]
    /\ UNCHANGED <<tables, user_context, invoke_params, runtime_client, tries,
                   slept, consumed, parsed, yielded, out>>
    /\ UNCHANGED memory

\* api_plan_stream with a goal and profile fields: user_context is built
\* from them and event_generator yields the session frame.
StartRequestWithContext(c) ==
    /\ pc[c] = "request"
    /\ \E g \in Goals :
        /\ ~IsBlank(g)
        /\ goal' = [goal EXCEPT ![c] = g]
    /\ \E ctx \in UserContexts :
        user_context' = [user_context EXCEPT ![c] = ctx]
    /\ pc' = [pc EXCEPT ![c] = "session_sent"]
    /\ sse' = [sse EXCEPT ![c] = <<SessionFrame(c)>>]
    /\ UNCHANGED <<tables, invoke_params, runtime_client, tries, slept,
                   consumed, parsed, yielded, out>>
    /\ UNCHANGED memory

\* invoke_params as invoke_supervisor_stream prepares it.
InvokeParams(c) ==
    [agentId |-> planner_id,
     agentAliasId |-> planner_alias_id,
     sessionId |-> session_id(c),
     inputText |-> _build_input_text(goal[c], user_context[c]),
     enableTrace |-> TRUE]

\* Mutant: the tables of the previous call are kept.
BeginInvokeNoReset(c) ==
    /\ pc[c] = "session_sent"
    /\ invoke_params' = [invoke_params EXCEPT ![c] = InvokeParams(c)]
    /\ runtime_client' = [runtime_client EXCEPT ![c] = TRUE]
    /\ pc' = [pc EXCEPT ![c] = "invoking"]
    /\ UNCHANGED <<tables, goal, user_context, tries, slept, consumed, parsed,
                   yielded, out, sse>>
    /\ UNCHANGED memory

\* invoke_supervisor_stream up to its first await: both tables are reset,
\* the runtime client is entered and the request parameters are prepared.
BeginInvoke(c) ==
    /\ pc[c] = "session_sent"
    /\ collaborator_invocation_counts' = EmptyDict
    /\ action_group_invocations' = EmptyDict
    /\ invoke_params' = [invoke_params EXCEPT ![c] = InvokeParams(c)]
    /\ runtime_client' = [runtime_client EXCEPT ![c] = TRUE]
    /\ pc' = [pc EXCEPT ![c] = "invoking"]
    /\ UNCHANGED <<goal, user_context, tries, slept, consumed, parsed,
                   yielded, out, sse>>
    /\ UNCHANGED memory

\* invoke_agent returns the response stream.
InvokeOk(c) ==
    /\ pc[c] = "invoking"
    /\ tries' = [tries EXCEPT ![c] = Append(@, "ok")]
    /\ pc' = [pc EXCEPT ![c] = "streaming"]
    /\ UNCHANGED <<tables, goal, user_context, invoke_params, runtime_client,
                   slept, consumed, parsed, yielded, out, sse>>
    /\ UNCHANGED memory

\* invoke_agent raises a throttling error: sleep and retry, or re-raise.
InvokeThrottled(c) ==
    /\ pc[c] = "invoking"
    /\ tries' = [tries EXCEPT ![c] = Append(@, "throttled")]
    /\ LET attempt == Len(tries[c])
       IN  IF ShouldRetry(TRUE, attempt)
           THEN /\ slept' = [slept EXCEPT ![c] = Append(@, RetryDelay(attempt))]
                /\ pc' = [pc EXCEPT ![c] = "sleeping"]
                /\ UNCHANGED <<runtime_client, sse>>
           ELSE /\ Raise(c, "throttlingException")
                /\ UNCHANGED slept
    /\ UNCHANGED <<tables, goal, user_context, invoke_params, consumed,
                   parsed, yielded, out>>
    /\ UNCHANGED memory

\* invoke_agent raises any other error: re-raised at once.
InvokeFailed(c) ==
    /\ pc[c] = "invoking"
    /\ tries' = [tries EXCEPT ![c] = Append(@, "failed")]
    /\ LET attempt == Len(tries[c])
       IN  IF ShouldRetry(FALSE, attempt)
           THEN /\ slept' = [slept EXCEPT ![c] = Append(@, RetryDelay(attempt))]
                /\ pc' = [pc EXCEPT ![c] = "sleeping"]
                /\ UNCHANGED <<runtime_client, sse>>
           ELSE /\ Raise(c, "AccessDeniedException")
                /\ UNCHANGED slept
    /\ UNCHANGED <<tables, goal, user_context, invoke_params, consumed,
                   parsed, yielded, out>>
    /\ UNCHANGED memory

\* asyncio.sleep(delay) returns: the loop continues with the next attempt
\* of range(max_retries); past the range, response was never bound.
SleepReturns(c) ==
    /\ pc[c] = "sleeping"
    /\ IF Len(tries[c]) < max_retries
       THEN /\ pc' = [pc EXCEPT ![c] = "invoking"]
            /\ UNCHANGED <<runtime_client, sse>>
       ELSE Raise(c, "UnboundLocalError")
    /\ UNCHANGED <<tables, goal, user_context, invoke_params, tries, slept,
                   consumed, parsed, yielded, out>>
    /\ UNCHANGED memory

\* The upstream delivers event e: one iteration of the async for loop, and
\* event_generator forwards what the iteration yields.
Deliver(c, e) ==
    /\ pc[c] = "streaming"
    /\ LET step == StreamStep(e, session_id(c), collaborator_invocation_counts,
                              action_group_invocations)
       IN  /\ collaborator_invocation_counts' = step.counts
           /\ action_group_invocations' = step.pending
           /\ consumed' = [consumed EXCEPT ![c] = Append(@, e)]
           /\ parsed' = [parsed EXCEPT ![c] = Append(@, step.record)]
           /\ yielded' = [yielded EXCEPT ![c] = Append(@, step.yield)]
           /\ out' = [out EXCEPT ![c] = @ \o step.yield]
           /\ IF step.raised
              THEN Raise(c, IF "chunk" \in DOMAIN e
                            THEN "UnicodeDecodeError" ELSE "KeyError")
              ELSE /\ sse' = [sse EXCEPT ![c] =
                          @ \o [i \in 1..Len(step.yield) |->
                                   SseFrame(step.yield[i])]]
                   /\ UNCHANGED <<pc, runtime_client>>
    /\ UNCHANGED <<goal, user_context, invoke_params, tries, slept>>
    /\ UNCHANGED memory

\* Mutant: the generator yields a closing event of its own when the
\* upstream stream is exhausted.
StreamEndYieldsDone(c) ==
    /\ pc[c] = "streaming"
    /\ pc' = [pc EXCEPT ![c] = "done"]
    /\ runtime_client' = [runtime_client EXCEPT ![c] = FALSE]
    /\ out' = [out EXCEPT ![c] = Append(@, [type |-> "done"])]
    /\ sse' = [sse EXCEPT ![c] = Append(@, DoneFrame)]
    /\ UNCHANGED <<tables, goal, user_context, invoke_params, tries, slept,
                   consumed, parsed, yielded>>
    /\ UNCHANGED memory

\* The upstream stream is exhausted: the generator returns, the client is
\* released and event_generator yields the done frame.
StreamEnd(c) ==
    /\ pc[c] = "streaming"
    /\ pc' = [pc EXCEPT ![c] = "done"]
    /\ runtime_client' = [runtime_client EXCEPT ![c] = FALSE]
    /\ sse' = [sse EXCEPT ![c] = Append(@, DoneFrame)]
    /\ UNCHANGED <<tables, goal, user_context, invoke_params, tries, slept,
                   consumed, parsed, yielded, out>>
    /\ UNCHANGED memory

\* Iterating the upstream stream raises (connection dropped).
StreamError(c) ==
    /\ pc[c] = "streaming"
    /\ Raise(c, "EventStreamError")
    /\ UNCHANGED <<tables, goal, user_context, invoke_params, tries, slept,
                   consumed, parsed, yielded, out>>
    /\ UNCHANGED memory

\* Mutant: the cancelled generator keeps its client.
DisconnectLeaking(c) ==
    /\ pc[c] \in Active
    /\ pc' = [pc EXCEPT ![c] = "closed"]
    /\ UNCHANGED <<tables, goal, user_context, invoke_params, runtime_client,
                   tries, slept, consumed, parsed, yielded, out, sse>>
    /\ UNCHANGED memory

\* The HTTP client disconnects while the response is suspended: the
\* generators are cancelled, the async with block releases the client, and
\* "except Exception" does not catch the cancellation.
Disconnect(c) ==
    /\ pc[c] \in Active
    /\ pc' = [pc EXCEPT ![c] = "closed"]
    /\ runtime_client' = [runtime_client EXCEPT ![c] = FALSE]
    /\ UNCHANGED <<tables, goal, user_context, invoke_params, tries, slept,
                   consumed, parsed, yielded, out, sse>>
    /\ UNCHANGED memory

\* Requests arrive one after the other: none is in progress when c starts.
NoneActive(c) == \A d \in Calls \ {c} : pc[d] \notin Active

\* Requests are numbered in the order they arrive.
InOrder(c) == \A d \in Calls : d < c => pc[d] /= "request"

\* The bound on the upstream events of a behaviour.
MoreEvents == TotalConsumed < MaxEvents

\* ------------------------------------------------------------------------
\* Spec: requests served one at a time by the module-level orchestrator,
\* invoke_agent succeeding at once, each stream read to its end.
\* ------------------------------------------------------------------------

Next ==
    \E c \in Calls :
        \/ InOrder(c) /\ NoneActive(c) /\ StartRequest(c)
        \/ BeginInvoke(c)
        \/ InvokeOk(c)
        \/ \E e \in CoreEvents : MoreEvents /\ Deliver(c, e)
        \/ StreamEnd(c)

Spec == Init /\ [][Next]_vars

\* ------------------------------------------------------------------------
\* SpecFilter: as Spec, the upstream delivering failures and events with
\* nothing to report.
\* ------------------------------------------------------------------------

NextFilter ==
    \E c \in Calls :
        \/ InOrder(c) /\ NoneActive(c) /\ StartRequest(c)
        \/ BeginInvoke(c)
        \/ InvokeOk(c)
        \/ \E e \in FilterEvents : MoreEvents /\ Deliver(c, e)
        \/ StreamEnd(c)

SpecFilter == Init /\ [][NextFilter]_vars

\* ------------------------------------------------------------------------
\* SpecTransport: requests served one at a time, with every outcome of
\* stream initiation, mid-stream failures, blank goals and disconnecting
\* clients.
\* ------------------------------------------------------------------------

\* A tool completion that no start announced.
LostToolDoneEvent ==
    OrchEvent([observation |->
        [type |-> "ACTION_GROUP",
         traceId |-> "t9",
         actionGroupInvocationOutput |-> [text |-> Cs1337Found]]])

TransportEvents ==
    { ChunkEvent(PlanBytes),
      ReasoningEvent(""),
      LostToolDoneEvent }

NextTransport ==
    \E c \in 1..NumTransportCalls :
        \/ InOrder(c) /\ NoneActive(c) /\ RejectRequest(c)
        \/ InOrder(c) /\ NoneActive(c) /\ StartRequest(c)
        \/ BeginInvoke(c)
        \/ InvokeOk(c)
        \/ InvokeThrottled(c)
        \/ InvokeFailed(c)
        \/ SleepReturns(c)
        \/ \E e \in TransportEvents : MoreEvents /\ Deliver(c, e)
        \/ StreamEnd(c)
        \/ StreamError(c)
        \/ Disconnect(c)

SpecTransport == Init /\ [][NextTransport]_vars

\* ------------------------------------------------------------------------
\* SpecExits: one request and every way invoke_supervisor_stream can be
\* left: the stream exhausted, initiation failing or throttled to the end,
\* a failure mid-stream, and the consumer going away.
\* ------------------------------------------------------------------------

NextExits ==
    \/ RejectRequest(1)
    \/ StartRequest(1)
    \/ BeginInvoke(1)
    \/ InvokeOk(1)
    \/ InvokeThrottled(1)
    \/ InvokeFailed(1)
    \/ SleepReturns(1)
    \/ \E e \in TransportEvents :
          Len(consumed[1]) < ScenarioLen /\ Deliver(1, e)
    \/ StreamEnd(1)
    \/ StreamError(1)
    \/ Disconnect(1)

SpecExits == Init /\ [][NextExits]_vars

\* ------------------------------------------------------------------------
\* SpecConc: requests that overlap, as main.py serves them from the one
\* orchestrator instance.
\* ------------------------------------------------------------------------

ConcEvents ==
    { ReasoningEvent("Let me check course data"),
      CollabStartEvent("JobMarketAgent"),
      ToolStartEvent("t1"),
      ToolDoneEvent("t1") }

NextConc ==
    \E c \in Calls :
        \/ InOrder(c) /\ StartRequest(c)
        \/ BeginInvoke(c)
        \/ InvokeOk(c)
        \/ \E e \in ConcEvents : MoreEvents /\ Deliver(c, e)
        \/ StreamEnd(c)

SpecConc == Init /\ [][NextConc]_vars

\* ------------------------------------------------------------------------
\* SpecScenario: one request with session id "abc" whose upstream delivers
\* the events of the example scenario, and near misses of them, in any
\* order.
\* ------------------------------------------------------------------------

ScenarioEvents ==
    { ReasoningEvent("Let me check course data"),
      ToolStartEvent("t1"),
      ToolDoneEvent("t1"),
      ChunkEvent(PlanBytes),
      ToolDoneEvent("t2"),
      ReasoningEvent("") }

NextScenario ==
    \/ StartRequest(1)
    \/ BeginInvoke(1)
    \/ InvokeOk(1)
    \/ \E e \in ScenarioEvents : Len(consumed[1]) < ScenarioLen /\ Deliver(1, e)
    \/ StreamEnd(1)

SpecScenario == Init /\ [][NextScenario]_vars

\* ------------------------------------------------------------------------
\* SpecCollab: one request whose upstream delivers collaborator starts and
\* completions, traces from inside a collaborator, failures and text.
\* ------------------------------------------------------------------------

\* A trace event emitted from inside a collaborator: collaboratorName is set
\* next to the trace payload.
CollabTraceEvent(collaborator_name, orch) ==
    [trace |-> [collaboratorName |-> collaborator_name,
                trace |-> [orchestrationTrace |-> orch]]]

CollabEvents ==
    { CollabStartEvent("JobMarketAgent"),
      CollabStartEvent("CourseAgent"),
      CollabDoneEvent("JobMarketAgent"),
      CollabTraceEvent("CourseAgent", [rationale |-> [text |-> "Searching the catalog"]]),
      FailureEvent("model timeout"),
      ChunkEvent(AccentBytes) }

NextCollab ==
    \/ StartRequest(1)
    \/ BeginInvoke(1)
    \/ InvokeOk(1)
    \/ \E e \in CollabEvents : Len(consumed[1]) < ScenarioLen /\ Deliver(1, e)
    \/ StreamEnd(1)

SpecCollab == Init /\ [][NextCollab]_vars

\* ------------------------------------------------------------------------
\* SpecRequest: one request, with or without profile fields, whose stream
\* initiation may be throttled.
\* ------------------------------------------------------------------------

RequestEvents ==
    { ChunkEvent(PlanBytes),
      ReasoningEvent("Let me check course data") }

NextRequest ==
    \/ StartRequest(1)
    \/ StartRequestWithContext(1)
    \/ BeginInvoke(1)
    \/ InvokeOk(1)
    \/ InvokeThrottled(1)
    \/ SleepReturns(1)
    \/ \E e \in RequestEvents : Len(consumed[1]) < ScenarioLen /\ Deliver(1, e)
    \/ StreamEnd(1)

SpecRequest == Init /\ [][NextRequest]_vars

\* ------------------------------------------------------------------------
\* SpecTools: one request whose upstream delivers tool and knowledge-base
\* starts and completions under three traceIds, among unrelated events.
\* ------------------------------------------------------------------------

get_professor_information == <<"g","e","t","_","p","r","o","f","e","s","s","o","r","_","i","n","f","o","r","m","a","t","i","o","n">>

\* A TOOL start with its own function, API path and parameters.
ToolStartWithEvent(trace_id, function_name, param_list) ==
    OrchEvent([invocationInput |->
        [invocationType |-> "ACTION_GROUP",
         traceId |-> trace_id,
         actionGroupInvocationInput |->
            [actionGroupName |-> NebulaAPI,
             function |-> function_name,
             apiPath |-> "/professor",
             verb |-> "GET",
             parameters |-> param_list]]])

KbStartEvent(trace_id) ==
    OrchEvent([invocationInput |->
        [invocationType |-> "KNOWLEDGE_BASE",
         traceId |-> trace_id,
         knowledgeBaseLookupInput |->
            [knowledgeBaseId |-> KbCourseCatalog,
             text |-> "prerequisites of CS 3345"]]])

KbDoneEvent(trace_id) ==
    OrchEvent([observation |->
        [type |-> "KNOWLEDGE_BASE",
         traceId |-> trace_id,
         knowledgeBaseLookupOutput |->
            [retrievedReferences |-> <<"ref1", "ref2">>,
             metadata |-> [totalTimeMs |-> 85]]]])

ProfessorParams ==
    << [name |-> "professor", value |-> "Smith"],
       [name |-> "unnamed"],
       [name |-> "term", value |-> "fall"] >>

ToolEvents ==
    { ToolStartEvent("t1"),
      ToolDoneEvent("t1"),
      ToolStartWithEvent("t2", get_professor_information, ProfessorParams),
      ToolDoneEvent("t2"),
      KbStartEvent("t3"),
      KbDoneEvent("t3"),
      ReasoningEvent("Let me check course data"),
      CollabStartEvent("CourseAgent") }

NextTools ==
    \/ StartRequest(1)
    \/ BeginInvoke(1)
    \/ InvokeOk(1)
    \/ \E e \in ToolEvents : Len(consumed[1]) < ScenarioLen /\ Deliver(1, e)
    \/ StreamEnd(1)

SpecTools == Init /\ [][NextTools]_vars

\* ------------------------------------------------------------------------
\* SpecShapes: one request whose upstream delivers partial and unexpected
\* trace shapes: absent optional fields, unknown kinds, completions nobody
\* registered, and completions of the other kind than their start.
\* ------------------------------------------------------------------------

\* A trace event with no trace payload at all.
BareTraceEvent == [trace |-> EmptyDict]

\* A TOOL start that names neither action group nor function.
BareToolStartEvent(trace_id) ==
    OrchEvent([invocationInput |->
        [invocationType |-> "ACTION_GROUP",
         traceId |-> trace_id,
         actionGroupInvocationInput |-> [apiPath |-> "/courses"]]])

ShapeEvents ==
    { BareTraceEvent,
      OrchEvent(EmptyDict),
      OrchEvent([rationale |-> EmptyDict]),
      OrchEvent([invocationInput |->
                    [invocationType |-> "ACTION_GROUP_CODE_INTERPRETER"]]),
      OrchEvent([observation |-> [type |-> "FINISH"]]),
      OrchEvent([observation |-> [type |-> "KNOWLEDGE_BASE"]]),
      LostToolDoneEvent,
      BareToolStartEvent("t1"),
      KbDoneEvent("t1"),
      KbStartEvent("t3"),
      ToolDoneEvent("t3") }

NextShapes ==
    \/ StartRequest(1)
    \/ BeginInvoke(1)
    \/ InvokeOk(1)
    \/ \E e \in ShapeEvents : Len(consumed[1]) < ScenarioLen /\ Deliver(1, e)
    \/ StreamEnd(1)

SpecShapes == Init /\ [][NextShapes]_vars

\* ------------------------------------------------------------------------
\* SpecFailure: one request whose upstream delivers failure traces, alone
\* and next to an orchestration payload, among starts and completions.
\* ------------------------------------------------------------------------

\* The trace event e with a failure payload added next to what it carries.
WithFailure(e, reason) ==
    [trace |-> Update(e.trace,
        [trace |-> Update(e.trace.trace,
            [failureTrace |-> [failureReason |-> reason]])])]

FailureEvents ==
    { ToolStartEvent("t1"),
      ToolDoneEvent("t1"),
      CollabStartEvent("JobMarketAgent"),
      FailureEvent("model timeout"),
      WithFailure(ToolStartEvent("t2"), "tool unavailable"),
      WithFailure(ToolDoneEvent("t1"), "tool crashed"),
      WithFailure(CollabStartEvent("JobMarketAgent"), "agent unavailable"),
      WithFailure(CollabTraceEvent("JobMarketAgent", EmptyDict), "agent crashed") }

NextFailure ==
    \/ StartRequest(1)
    \/ BeginInvoke(1)
    \/ InvokeOk(1)
    \/ \E e \in FailureEvents : Len(consumed[1]) < ScenarioLen /\ Deliver(1, e)
    \/ StreamEnd(1)

SpecFailure == Init /\ [][NextFailure]_vars

\* ------------------------------------------------------------------------
\* Vocabulary of the properties
\* ------------------------------------------------------------------------

\* The positions of the upstream events a request has consumed.
Positions(c) == 1..Len(consumed[c])

\* The upstream event is handled as a trace event (chunk is tested first).
IsTraceEvent(e) == "trace" \in DOMAIN e /\ "chunk" \notin DOMAIN e

IsChunkEvent(e) == "chunk" \in DOMAIN e

TraceData(e) == Get(Get(e, "trace", EmptyDict), "trace", EmptyDict)

HasFailure(e) == IsTraceEvent(e) /\ "failureTrace" \in DOMAIN TraceData(e)

\* The orchestration payload the event is read for: none under a failure.
OrchOf(e) ==
    IF IsTraceEvent(e) /\ ~HasFailure(e)
    THEN Get(TraceData(e), "orchestrationTrace", EmptyDict)
    ELSE EmptyDict

InvOf(e) == Get(OrchOf(e), "invocationInput", EmptyDict)
ObsOf(e) == Get(OrchOf(e), "observation", EmptyDict)

IsCollabStart(e) == Get(InvOf(e), "invocationType", None) = "AGENT_COLLABORATOR"

CollabStartName(e) ==
    Get(Get(InvOf(e), "agentCollaboratorInvocationInput", EmptyDict),
        "agentCollaboratorName", None)

\* A TOOL start that carries traceId t and a non-empty input payload.
IsToolStart(e, t) ==
    /\ Get(InvOf(e), "invocationType", None) = "ACTION_GROUP"
    /\ Get(InvOf(e), "traceId", None) = t
    /\ NonEmpty(Get(InvOf(e), "actionGroupInvocationInput", EmptyDict))

IsToolDone(e) == Get(ObsOf(e), "type", None) = "ACTION_GROUP"

ToolDoneTraceId(e) == Get(ObsOf(e), "traceId", None)

ToolDoneText(e) ==
    Get(Get(ObsOf(e), "actionGroupInvocationOutput", EmptyDict), "text", <<>>)

\* The output events yielded for position i are exactly one trace event.
YieldsOneTrace(c, i) ==
    /\ Len(yielded[c][i]) = 1
    /\ yielded[c][i][1].type = "trace"

\* The record of the trace event yielded for position i.
RecordAt(c, i) == yielded[c][i][1].data

\* The keyword-based fallback record for a tool completion with this text.
FallbackToolCall(text) ==
    [type |-> "action_group",
     name |-> InferDisplayName(text),
     status |-> "completed",
     result |-> CompletedPrefix \o InferDisplayName(text)]

\* ------------------------------------------------------------------------
\* C1
\* ------------------------------------------------------------------------

\* C1: every upstream trace event with a failureTrace yields one trace
\* output event whose record has status = failed and failure_reason set.
C1_FailureAlwaysEmitted ==
    \A c \in Calls : \A i \in Positions(c) :
        HasFailure(consumed[c][i]) =>
            /\ YieldsOneTrace(c, i)
            /\ RecordAt(c, i).status = "failed"
            /\ "failure_reason" \in DOMAIN RecordAt(c, i)

\* ------------------------------------------------------------------------
\* C2
\* ------------------------------------------------------------------------

\* What a call emits for these upstream events when it runs alone, on
\* tables of its own that start empty.
RECURSIVE RunAlone(_, _, _, _)
RunAlone(events, sid, counts, pending) ==
    IF Len(events) = 0 THEN <<>>
    ELSE LET step == StreamStep(Head(events), sid, counts, pending)
         IN  step.yield \o
             (IF step.raised THEN <<>>
              ELSE RunAlone(Tail(events), sid, step.counts, step.pending))

AloneOutput(c) == RunAlone(consumed[c], session_id(c), EmptyDict, EmptyDict)

\* C2: whatever the interleaving of two overlapping calls, each call emits
\* exactly the output events it would emit if it ran alone.
C2_ConcurrentCallsIndependent ==
    \A c \in Calls : out[c] = AloneOutput(c)

\* ------------------------------------------------------------------------
\* C3
\* ------------------------------------------------------------------------

\* How many of the first i events of the call are collaborator starts for
\* this name.
StartsSoFar(c, i, name) ==
    Cardinality({j \in 1..i : /\ IsCollabStart(consumed[c][j])
                              /\ CollabStartName(consumed[c][j]) = name})

\* C3: within one invocation the k-th collaborator start for a name X
\* yields agent_call_id = {session_id}_{X}_{k}, whatever events for other
\* names lie in between.
C3_CounterMonotonicity ==
    \A c \in Calls : \A i \in Positions(c) :
        IsCollabStart(consumed[c][i]) =>
            LET X == CollabStartName(consumed[c][i])
            IN  /\ YieldsOneTrace(c, i)
                /\ RecordAt(c, i).agent_call_id =
                       CallId(session_id(c), X, StartsSoFar(c, i, X))

\* A call has started X, then another name, then X again: the second
\* start of X got counter 2.
C3_Witness ==
    \E c \in Calls : \E i, j, k \in Positions(c) :
        /\ i < j /\ j < k
        /\ IsCollabStart(consumed[c][i])
        /\ IsCollabStart(consumed[c][j])
        /\ IsCollabStart(consumed[c][k])
        /\ CollabStartName(consumed[c][i]) = "JobMarketAgent"
        /\ CollabStartName(consumed[c][j]) = "CourseAgent"
        /\ CollabStartName(consumed[c][k]) = "JobMarketAgent"
        /\ RecordAt(c, k).agent_call_id = session_id(c) \o "_JobMarketAgent_2"

\* ------------------------------------------------------------------------
\* C4
\* ------------------------------------------------------------------------

\* Position j is a TOOL completion that a TOOL start of the same call and
\* traceId precedes, with no completion for that traceId in between.
MatchedDone(c, j) ==
    /\ IsToolDone(consumed[c][j])
    /\ Truthy(ToolDoneTraceId(consumed[c][j]))
    /\ \E i \in 1..(j - 1) :
        /\ IsToolStart(consumed[c][i], ToolDoneTraceId(consumed[c][j]))
        /\ \A k \in (i + 1)..(j - 1) :
            ~(/\ IsToolDone(consumed[c][k])
              /\ ToolDoneTraceId(consumed[c][k]) = ToolDoneTraceId(consumed[c][j]))

\* Position j is a TOOL completion for a traceId that an earlier completion
\* of the call already consumed, no start for it lying in between.
SecondDone(c, j) ==
    /\ IsToolDone(consumed[c][j])
    /\ \E i \in 1..(j - 1) :
        /\ MatchedDone(c, i)
        /\ ToolDoneTraceId(consumed[c][i]) = ToolDoneTraceId(consumed[c][j])
        /\ \A k \in (i + 1)..(j - 1) :
            ~IsToolStart(consumed[c][k], ToolDoneTraceId(consumed[c][j]))

\* C4: once a TOOL completion has matched the start with its traceId T,
\* the pending table no longer contains T, and a second completion with T
\* yields the keyword-based fallback record.
C4_AtMostOnceConsumption ==
    \A c \in Calls :
        /\ ( /\ pc[c] = "streaming"
             /\ Len(consumed[c]) > 0
             /\ IsToolDone(consumed[c][Len(consumed[c])]) )
           => ToolDoneTraceId(consumed[c][Len(consumed[c])])
                 \notin DOMAIN action_group_invocations
        /\ \A j \in Positions(c) :
             SecondDone(c, j) =>
                /\ YieldsOneTrace(c, j)
                /\ RecordAt(c, j).tool_calls =
                       <<FallbackToolCall(ToolDoneText(consumed[c][j]))>>

\* A call has seen start t1, completion t1 (matched, with the stored
\* name) and completion t1 again.
C4_Witness ==
    \E c \in Calls : \E i, j \in Positions(c) :
        /\ i < j
        /\ MatchedDone(c, i)
        /\ RecordAt(c, i).tool_calls[1].name = NebulaAPI
        /\ SecondDone(c, j)
        /\ "function" \notin DOMAIN RecordAt(c, j).tool_calls[1]

\* ------------------------------------------------------------------------
\* C5
\* ------------------------------------------------------------------------

\* C5: two throttling errors and then a success make three attempts with
\* sleeps of 1s and 2s; three throttling errors make the call raise after
\* the third attempt, with no fourth attempt and no third sleep.
C5_RetryBound ==
    \A c \in Calls :
        /\ Len(tries[c]) <= 3
        /\ tries[c] = <<"throttled", "throttled", "ok">> =>
              /\ slept[c] = <<1, 2>>
              /\ pc[c] \notin {"invoking", "sleeping"}
        /\ tries[c] = <<"throttled", "throttled", "throttled">> =>
              /\ slept[c] = <<1, 2>>
              /\ pc[c] = "error"

\* A request was throttled twice, slept 1s and 2s, and is now streaming.
C5_Witness ==
    \E c \in Calls :
        /\ tries[c] = <<"throttled", "throttled", "ok">>
        /\ slept[c] = <<1, 2>>
        /\ pc[c] = "streaming"

\* ------------------------------------------------------------------------
\* C6
\* ------------------------------------------------------------------------

\* Position j is a TOOL completion whose traceId no TOOL start of the same
\* call has carried before it.
UnstartedDone(c, j) ==
    /\ IsToolDone(consumed[c][j])
    /\ \A i \in 1..(j - 1) :
        ~IsToolStart(consumed[c][i], ToolDoneTraceId(consumed[c][j]))

\* An ended call left the traceId t pending: a TOOL start for t that no
\* later completion matched.
LeftDangling(c, t) ==
    /\ pc[c] = "done"
    /\ \E i \in Positions(c) :
        /\ IsToolStart(consumed[c][i], t)
        /\ \A k \in (i + 1)..Len(consumed[c]) :
            ~(IsToolDone(consumed[c][k]) /\ ToolDoneTraceId(consumed[c][k]) = t)

\* C6: a call that follows another on the same instance starts with empty
\* tables: a completion for a traceId only an earlier call started takes
\* the fallback path, and the first start of a name gets counter 1.
C6_SequentialIsolation ==
    \A c \in Calls :
        /\ pc[c] = "invoking" =>
              /\ collaborator_invocation_counts = EmptyDict
              /\ action_group_invocations = EmptyDict
        /\ \A j \in Positions(c) :
              UnstartedDone(c, j) =>
                 /\ YieldsOneTrace(c, j)
                 /\ Get(RecordAt(c, j), "tool_calls", <<>>) =
                        <<FallbackToolCall(ToolDoneText(consumed[c][j]))>>
        /\ \A i \in Positions(c) :
              ( /\ IsCollabStart(consumed[c][i])
                /\ StartsSoFar(c, i, CollabStartName(consumed[c][i])) = 1 )
              => /\ YieldsOneTrace(c, i)
                 /\ Get(RecordAt(c, i), "agent_call_id", None) =
                        CallId(session_id(c), CollabStartName(consumed[c][i]), 1)

\* The first call ended with t1 pending and a counter above zero; the
\* second call has consumed a completion for t1 and emitted the fallback.
C6_Witness ==
    /\ LeftDangling(1, "t1")
    /\ \E i \in Positions(1) : IsCollabStart(consumed[1][i])
    /\ \E j \in Positions(2) :
        /\ UnstartedDone(2, j)
        /\ ToolDoneTraceId(consumed[2][j]) = "t1"
        /\ "function" \notin DOMAIN RecordAt(2, j).tool_calls[1]

\* ------------------------------------------------------------------------
\* C7
\* ------------------------------------------------------------------------

\* str.encode("utf-8"): the bytes of a sequence of code points.
RECURSIVE Utf8Encode(_)
Utf8Encode(text) ==
    IF Len(text) = 0 THEN <<>>
    ELSE LET cp == Head(text)
             bytes ==
                 IF cp < 128 THEN <<cp>>
                 ELSE IF cp < 2048 THEN
                     <<192 + (cp \div 64), 128 + (cp % 64)>>
                 ELSE IF cp < 65536 THEN
                     <<224 + (cp \div 4096), 128 + ((cp \div 64) % 64),
                       128 + (cp % 64)>>
                 ELSE
                     <<240 + (cp \div 262144), 128 + ((cp \div 4096) % 64),
                       128 + ((cp \div 64) % 64), 128 + (cp % 64)>>
         IN  bytes \o Utf8Encode(Tail(text))

RECURSIVE Flatten(_)
Flatten(seqs) ==
    IF Len(seqs) = 0 THEN <<>> ELSE Head(seqs) \o Flatten(Tail(seqs))

\* C7: every text fragment yields exactly one chunk event whose text is the
\* text the fragment's bytes encode; every trace event yields at most one
\* trace event; and the output sequence is, at every moment, the outputs of
\* the events consumed so far in upstream order.
C7_PassThrough ==
    \A c \in Calls :
        /\ Len(yielded[c]) = Len(consumed[c])
        /\ out[c] = Flatten(yielded[c])
        /\ \A i \in Positions(c) :
            /\ IsChunkEvent(consumed[c][i]) =>
                  /\ Len(yielded[c][i]) = 1
                  /\ yielded[c][i][1].type = "chunk"
                  /\ Utf8Encode(Get(yielded[c][i][1], "text", <<>>)) =
                         consumed[c][i].chunk.bytes
            /\ IsTraceEvent(consumed[c][i]) =>
                  /\ Len(yielded[c][i]) <= 1
                  /\ Len(yielded[c][i]) = 1 => yielded[c][i][1].type = "trace"

\* A call has emitted a trace, then the chunk of a multi-byte fragment,
\* then another trace, in that order.
C7_Witness ==
    \E c \in Calls :
        /\ Len(out[c]) = 3
        /\ out[c][1].type = "trace"
        /\ out[c][2].type = "chunk"
        /\ out[c][2].text = <<72, 233, 33>>
        /\ out[c][3].type = "trace"

\* ------------------------------------------------------------------------
\* C8
\* ------------------------------------------------------------------------

\* The record carries reasoning text, a collaborator call name, a
\* collaborator response or a non-empty tool-calls list.
Meaningful(r) ==
    \/ Truthy(Get(r, "reasoning", None))
    \/ Truthy(Get(r, "calling_collaborator", None))
    \/ "collaborator_response" \in DOMAIN r
    \/ NonEmpty(Get(r, "tool_calls", <<>>))

\* C8: a trace output event is emitted only if its record carries reasoning
\* text, a collaborator call name, a collaborator response or a non-empty
\* tool-calls list; a non-failed trace event with none of these (such as a
\* collaborator start with no name) produces no output event.
C8_SuppressionFilter ==
    \A c \in Calls : \A i \in Positions(c) :
        ( /\ IsTraceEvent(consumed[c][i])
          /\ ~HasFailure(consumed[c][i])
          /\ Len(yielded[c][i]) > 0 )
        => Meaningful(RecordAt(c, i))

\* ------------------------------------------------------------------------
\* C9
\* ------------------------------------------------------------------------

Scenario ==
    << ReasoningEvent("Let me check course data"),
       ToolStartEvent("t1"),
       ToolDoneEvent("t1"),
       ChunkEvent(PlanBytes) >>

\* "Here is your plan: ..." as code points.
PlanText == <<72,101,114,101,32,105,115,32,121,111,117,114,32,112,108,97,
              110,58,32,46,46,46>>

\* The tool calls of output event k, if it is a trace event.
ToolCallsOf(ev) == Get(Get(ev, "data", EmptyDict), "tool_calls", <<>>)

\* C9: for session "abc" and the upstream sequence reasoning, TOOL start t1,
\* TOOL completion t1 (120 ms), text fragment, the output is exactly: a
\* trace with the reasoning and status progress, a trace with one calling
\* tool call, a trace with one completed tool call of 120 ms naming
\* NebulaAPI.get_course_information, and the chunk with the plan text.
C9_ExampleScenario ==
    consumed[1] = Scenario =>
        /\ Len(out[1]) = 4
        /\ \A k \in 1..4 : out[1][k].session_id = "abc"
        /\ out[1][1].type = "trace"
        /\ Get(out[1][1].data, "reasoning", None) = "Let me check course data"
        /\ out[1][1].data.status = "progress"
        /\ out[1][2].type = "trace"
        /\ Len(ToolCallsOf(out[1][2])) = 1
        /\ ToolCallsOf(out[1][2])[1].status = "calling"
        /\ out[1][3].type = "trace"
        /\ Len(ToolCallsOf(out[1][3])) = 1
        /\ ToolCallsOf(out[1][3])[1].status = "completed"
        /\ Get(ToolCallsOf(out[1][3])[1], "execution_time_ms", -1) = 120
        /\ ToolCallsOf(out[1][3])[1].name = NebulaAPI
        /\ Get(ToolCallsOf(out[1][3])[1], "function", <<>>) = get_course_information
        /\ out[1][4] = [type |-> "chunk", text |-> PlanText, session_id |-> "abc"]

\* The request has consumed exactly the scenario and its stream has ended.
C9_Witness ==
    /\ consumed[1] = Scenario
    /\ pc[1] = "done"
    /\ Len(out[1]) = 4

\* ------------------------------------------------------------------------
\* C10
\* ------------------------------------------------------------------------

IsTerminalFrame(f) == f.data.type \in {"done", "error"}

HasTerminal(frames) == \E i \in 1..Len(frames) : IsTerminalFrame(frames[i])

\* The frames of the output events of invoke_supervisor_stream, in order.
Forwarded(c) == [i \in 1..Len(out[c]) |-> SseFrame(out[c][i])]

IsPrefix(s, t) == Len(s) <= Len(t) /\ SubSeq(t, 1, Len(s)) = s

\* In every state of a stream: the session frame first, then the frames of
\* the orchestrator's output in order, then done if the orchestrator's
\* sequence ended, an error frame if it raised, and no terminal frame
\* otherwise.
C10_StreamShape ==
    \A c \in Calls :
        pc[c] \notin {"request", "rejected"} =>
            LET body == <<SessionFrame(c)>> \o Forwarded(c)
            IN  /\ pc[c] \in Active \cup {"closed"} => sse[c] = body
                /\ pc[c] = "done" => sse[c] = Append(body, DoneFrame)
                /\ pc[c] = "error" =>
                      /\ Len(sse[c]) = Len(body) + 1
                      /\ SubSeq(sse[c], 1, Len(body)) = body
                      /\ sse[c][Len(sse[c])].data.type = "error"

\* In every step of a stream: frames already sent stay, and nothing is sent
\* after a terminal frame.
C10_StreamStep ==
    \A c \in Calls :
        /\ IsPrefix(sse[c], sse'[c])
        /\ HasTerminal(sse[c]) => sse'[c] = sse[c]

\* C10: every /api/plan stream with a non-empty goal starts with the
\* session event, forwards every orchestrator output event in order and
\* ends with exactly one terminal event, done after a normal end and error
\* after a raise; nothing follows the terminal event and nothing already
\* sent is retracted.
C10_TerminalEvent == []C10_StreamShape /\ [][C10_StreamStep]_vars

\* A stream was throttled once, forwarded two events and then failed
\* mid-stream: session, the two events, error.
C10_Witness ==
    \E c \in Calls :
        /\ pc[c] = "error"
        /\ tries[c] = <<"throttled", "ok">>
        /\ Len(out[c]) = 2
        /\ Len(sse[c]) = 4
        /\ sse[c][4].data.type = "error"

\* ------------------------------------------------------------------------
\* C11
\* ------------------------------------------------------------------------

\* The places of a request at which invoke_supervisor_stream is inside its
\* "async with" block.
InsideAsyncWith == {"invoking", "sleeping", "streaming"}

\* C11: the bedrock-agent-runtime client is held exactly while the call is
\* inside its async with block; after every exit (stream exhausted,
\* initiation failed, exception mid-stream, generator closed by the
\* consumer) the client is released.
C11_ScopedRelease ==
    \A c \in Calls :
        /\ pc[c] \in InsideAsyncWith => runtime_client[c]
        /\ pc[c] \notin InsideAsyncWith => ~runtime_client[c]

\* A request whose consumer went away while the stream was open, after an
\* event had been consumed: the client it had acquired is released.
C11_Witness ==
    \E c \in Calls :
        /\ pc[c] = "closed"
        /\ Len(tries[c]) > 0
        /\ tries[c][Len(tries[c])] = "ok"
        /\ Len(consumed[c]) > 0
        /\ ~runtime_client[c]

\* ------------------------------------------------------------------------
\* C12
\* ------------------------------------------------------------------------

\* The statuses of the records the parser has returned to the call so far.
StatusesParsed(c) ==
    {parsed[c][i][1].status : i \in {j \in Positions(c) : Len(parsed[c][j]) = 1}}

\* C12: every record the parser returns during the invocation with session
\* id S, whatever its status and whether or not it is then emitted, carries
\* supervisor_id = supervisor_S, and every output event, chunk or trace,
\* carries session_id = S.
C12_SupervisorIdConstant ==
    \A c \in Calls :
        /\ \A i \in Positions(c) :
              /\ Len(parsed[c][i]) <= 1
              /\ Len(parsed[c][i]) = 1 =>
                    Get(parsed[c][i][1], "supervisor_id", None) =
                        "supervisor_" \o session_id(c)
        /\ \A k \in 1..Len(out[c]) :
              /\ out[c][k].session_id = session_id(c)
              /\ out[c][k].type = "trace" =>
                    Get(out[c][k].data, "supervisor_id", None) =
                        "supervisor_" \o session_id(c)

\* The request with session id abc has been returned a started, a completed
\* and a failed record and has emitted a chunk.
C12_Witness ==
    /\ {"started", "completed", "failed"} \subseteq StatusesParsed(1)
    /\ \E k \in 1..Len(out[1]) : out[1][k].type = "chunk"
    /\ \A i \in Positions(1) :
          Len(parsed[1][i]) = 1 => parsed[1][i][1].supervisor_id = "supervisor_abc"

\* ------------------------------------------------------------------------
\* C18
\* ------------------------------------------------------------------------

IsCollabDone(e) == Get(ObsOf(e), "type", None) = "AGENT_COLLABORATOR"

CollabDoneName(e) ==
    Get(Get(ObsOf(e), "agentCollaboratorInvocationOutput", EmptyDict),
        "agentCollaboratorName", None)

CollabDoneOutput(e) ==
    Get(Get(Get(ObsOf(e), "agentCollaboratorInvocationOutput", EmptyDict),
            "output", EmptyDict), "text", None)

\* The collaborator names the call's events mention.
CollabNames(c) ==
    {CollabStartName(consumed[c][i]) :
        i \in {j \in Positions(c) : IsCollabStart(consumed[c][j])}}
    \cup {CollabDoneName(consumed[c][i]) :
        i \in {j \in Positions(c) : IsCollabDone(consumed[c][j])}}

\* C18: a COLLABORATOR completion for name X yields a record with status
\* completed and collaborator_response = {agent: X, output}; when X has been
\* started k >= 1 times so far its agent_call_id is {session_id}_{X}_{k};
\* and only starts move the counters, so that while the stream is read the
\* counter of every name is the number of its starts.
C18_CollaboratorCompletion ==
    \A c \in Calls :
        /\ \A i \in Positions(c) :
              IsCollabDone(consumed[c][i]) =>
                 LET X == CollabDoneName(consumed[c][i])
                     k == StartsSoFar(c, i, X)
                 IN  /\ YieldsOneTrace(c, i)
                     /\ RecordAt(c, i).status = "completed"
                     /\ Get(RecordAt(c, i), "collaborator_response", None) =
                            [agent |-> X,
                             output |-> CollabDoneOutput(consumed[c][i])]
                     /\ k >= 1 =>
                            Get(RecordAt(c, i), "agent_call_id", None) =
                                session_id(c) \o "_" \o X \o "_" \o ToString(k)
        /\ pc[c] = "streaming" =>
              \A X \in CollabNames(c) :
                 Get(collaborator_invocation_counts, X, 0) =
                     StartsSoFar(c, Len(consumed[c]), X)

\* JobMarketAgent was started twice with a start of CourseAgent in between
\* and then completed: the completion carries the id of the second start,
\* and the counter still stands at 2.
C18_Witness ==
    /\ pc[1] = "streaming"
    /\ Len(consumed[1]) = 4
    /\ StartsSoFar(1, 4, "CourseAgent") = 1
    /\ StartsSoFar(1, 4, "JobMarketAgent") = 2
    /\ IsCollabDone(consumed[1][4])
    /\ RecordAt(1, 4).agent_call_id = "abc_JobMarketAgent_2"
    /\ collaborator_invocation_counts["JobMarketAgent"] = 2

\* ------------------------------------------------------------------------
\* C13
\* ------------------------------------------------------------------------

\* The request has called invoke_agent at least once.
RequestSent(c) == Len(tries[c]) > 0

\* C13: the request passed to invoke_agent carries agentId, agentAliasId,
\* sessionId, inputText and enableTrace = true, and when the call was given
\* a user context it also carries the session attributes built from it.
C13_UpstreamRequestShape ==
    \A c \in Calls :
        RequestSent(c) =>
            /\ {"agentId", "agentAliasId", "sessionId", "inputText",
                "enableTrace"} \subseteq DOMAIN invoke_params[c]
            /\ Get(invoke_params[c], "sessionId", None) = session_id(c)
            /\ Get(invoke_params[c], "enableTrace", FALSE) = TRUE
            /\ NonEmpty(user_context[c]) =>
                  /\ "sessionState" \in DOMAIN invoke_params[c]
                  /\ Get(Get(invoke_params[c], "sessionState", EmptyDict),
                         "sessionAttributes", EmptyDict)
                        = _build_session_attributes(user_context[c])

\* ------------------------------------------------------------------------
\* Tool and knowledge-base sub-invocations in the consumed events
\* ------------------------------------------------------------------------

StartTraceId(e) == Get(InvOf(e), "traceId", None)

ActionInput(e) == Get(InvOf(e), "actionGroupInvocationInput", EmptyDict)

KbInput(e) == Get(InvOf(e), "knowledgeBaseLookupInput", EmptyDict)

KbOutput(e) == Get(ObsOf(e), "knowledgeBaseLookupOutput", EmptyDict)

ActionOutput(e) == Get(ObsOf(e), "actionGroupInvocationOutput", EmptyDict)

\* A KNOWLEDGE_LOOKUP start that carries traceId t and a non-empty payload.
IsKbStart(e, t) ==
    /\ Get(InvOf(e), "invocationType", None) = "KNOWLEDGE_BASE"
    /\ StartTraceId(e) = t
    /\ NonEmpty(KbInput(e))

IsKbDone(e) == Get(ObsOf(e), "type", None) = "KNOWLEDGE_BASE"

\* A TOOL or KNOWLEDGE_LOOKUP start with a traceId.
IsSubStart(e) ==
    /\ Truthy(StartTraceId(e))
    /\ IsToolStart(e, StartTraceId(e)) \/ IsKbStart(e, StartTraceId(e))

\* A TOOL or KNOWLEDGE_LOOKUP completion.
IsSubDone(e) == IsToolDone(e) \/ IsKbDone(e)

\* Position i holds the start that the completion at position j answers:
\* the last start before j with j's traceId, of j's kind, with no completion
\* for that traceId in between.
AnswersStart(c, i, j) ==
    LET T == ToolDoneTraceId(consumed[c][j])
    IN  /\ i < j
        /\ Truthy(T)
        /\ \/ IsToolStart(consumed[c][i], T) /\ IsToolDone(consumed[c][j])
           \/ IsKbStart(consumed[c][i], T) /\ IsKbDone(consumed[c][j])
        /\ \A k \in (i + 1)..(j - 1) :
              /\ ~(IsSubStart(consumed[c][k]) /\ StartTraceId(consumed[c][k]) = T)
              /\ ~(IsSubDone(consumed[c][k]) /\ ToolDoneTraceId(consumed[c][k]) = T)

\* The one tool-call entry of the record yielded for position i, or an empty
\* entry when the record does not hold exactly one.
OnlyToolCall(c, i) ==
    IF /\ Len(yielded[c][i]) = 1
       /\ yielded[c][i][1].type = "trace"
       /\ Len(Get(RecordAt(c, i), "tool_calls", <<>>)) = 1
    THEN RecordAt(c, i).tool_calls[1]
    ELSE EmptyDict

\* The completed entry at j carries the traceId and the descriptive fields
\* of the start at i, and the timing and output of the completion at j.
CarriesStartFields(c, i, j) ==
    LET start == consumed[c][i]
        done == consumed[c][j]
        calling == OnlyToolCall(c, i)
        entry == OnlyToolCall(c, j)
    IN  /\ Get(entry, "status", None) = "completed"
        /\ Get(entry, "trace_id", None) = StartTraceId(start)
        /\ IsToolDone(done) =>
              /\ Get(entry, "type", None) = "action_group"
              /\ Get(entry, "name", <<>>) = ActionInput(start).actionGroupName
              /\ Get(entry, "function", <<>>) = ActionInput(start).function
              /\ "parameters" \in DOMAIN entry
              /\ "parameters" \in DOMAIN calling
              /\ entry.parameters = calling.parameters
              /\ Get(entry, "api_path", None) = Get(ActionInput(start), "apiPath", "")
              /\ Get(entry, "verb", None) = Get(ActionInput(start), "verb", "")
              /\ Get(entry, "execution_time_ms", -1) =
                     ActionOutput(done).metadata.totalTimeMs
              /\ Get(entry, "response", <<>>) = ActionOutput(done).text
        /\ IsKbDone(done) =>
              /\ Get(entry, "type", None) = "knowledge_base"
              /\ Get(entry, "query", None) = KbInput(start).text
              /\ Get(entry, "name", <<>>) = Get(calling, "name", <<"?">>)
              /\ Get(entry, "execution_time_ms", -1) =
                     KbOutput(done).metadata.totalTimeMs
              /\ Get(entry, "references_count", -1) =
                     Len(KbOutput(done).retrievedReferences)

\* ------------------------------------------------------------------------
\* C14
\* ------------------------------------------------------------------------

\* The table entry stored for the start event e holds its descriptive
\* fields.
StoresStartFields(stored, e, calling) ==
    IF IsToolStart(e, StartTraceId(e))
    THEN /\ Get(stored, "actionGroupName", <<>>) = ActionInput(e).actionGroupName
         /\ Get(stored, "function", <<>>) = ActionInput(e).function
         /\ "parameters" \in DOMAIN stored
         /\ "parameters" \in DOMAIN calling
         /\ stored.parameters = calling.parameters
    ELSE /\ Get(stored, "knowledgeBaseId", <<>>) = KbInput(e).knowledgeBaseId
         /\ Get(stored, "query", None) = KbInput(e).text

\* C14: a TOOL or KNOWLEDGE_LOOKUP start with a traceId stores its
\* descriptive fields in the pending table under that traceId, appends
\* exactly one tool-call entry of status calling to the record, and sets
\* the record's status to started.
C14_StartRegistersPending ==
    \A c \in Calls : \A i \in Positions(c) :
        IsSubStart(consumed[c][i]) =>
            LET e == consumed[c][i]
                T == StartTraceId(e)
            IN  /\ YieldsOneTrace(c, i)
                /\ Len(Get(RecordAt(c, i), "tool_calls", <<>>)) = 1
                /\ Get(OnlyToolCall(c, i), "status", None) = "calling"
                /\ Get(OnlyToolCall(c, i), "trace_id", None) = T
                /\ (i = Len(consumed[c]) /\ pc[c] = "streaming") =>
                      /\ T \in DOMAIN action_group_invocations
                      /\ StoresStartFields(action_group_invocations[T], e,
                                           OnlyToolCall(c, i))
                /\ RecordAt(c, i).status = "started"

\* ------------------------------------------------------------------------
\* C15
\* ------------------------------------------------------------------------

\* C15: a TOOL or KNOWLEDGE_LOOKUP completion whose traceId is pending
\* yields exactly one tool-call entry of status completed that combines the
\* stored start fields with the completion's timing and output, removes
\* the traceId from the table, and sets the record's status to completed.
C15_MatchedCompletion ==
    \A c \in Calls : \A j \in Positions(c) : \A i \in 1..(j - 1) :
        AnswersStart(c, i, j) =>
            /\ YieldsOneTrace(c, j)
            /\ Len(Get(RecordAt(c, j), "tool_calls", <<>>)) = 1
            /\ CarriesStartFields(c, i, j)
            /\ (j = Len(consumed[c]) /\ pc[c] = "streaming") =>
                  ToolDoneTraceId(consumed[c][j])
                      \notin DOMAIN action_group_invocations
            /\ RecordAt(c, j).status = "completed"

\* ------------------------------------------------------------------------
\* C19
\* ------------------------------------------------------------------------

\* The traceIds the call has started and not completed since.
PendingIds(c) ==
    {StartTraceId(consumed[c][i]) :
        i \in {k \in Positions(c) :
                 /\ IsSubStart(consumed[c][k])
                 /\ \A j \in (k + 1)..Len(consumed[c]) :
                       ~(/\ IsSubDone(consumed[c][j])
                         /\ ToolDoneTraceId(consumed[c][j]) =
                                StartTraceId(consumed[c][k]))}}

\* C19: however the starts and same-kind completions of distinct traceIds
\* are interleaved with each other and with reasoning, collaborator events
\* and text fragments, the pending table holds every traceId started and
\* not yet completed, and each completion's tool-call entry carries its
\* own traceId and the descriptive fields of the start with that traceId,
\* never the fallback entry and never another start's fields.
C19_InterleavedSubInvocations ==
    \A c \in Calls :
        /\ pc[c] = "streaming" =>
              DOMAIN action_group_invocations = PendingIds(c)
        /\ \A j \in Positions(c) : \A i \in 1..(j - 1) :
              AnswersStart(c, i, j) =>
                 /\ YieldsOneTrace(c, j)
                 /\ Len(Get(RecordAt(c, j), "tool_calls", <<>>)) = 1
                 /\ OnlyToolCall(c, j) /=
                        FallbackToolCall(ToolDoneText(consumed[c][j]))
                 /\ CarriesStartFields(c, i, j)

\* Tool t1 and tool t2 were started in that order and completed in the
\* opposite order: each completion names the function of its own start.
C19_Witness ==
    /\ Len(consumed[1]) = 4
    /\ IsToolStart(consumed[1][1], "t1")
    /\ IsToolStart(consumed[1][2], "t2")
    /\ AnswersStart(1, 2, 3)
    /\ AnswersStart(1, 1, 4)
    /\ OnlyToolCall(1, 3).function = get_professor_information
    /\ OnlyToolCall(1, 3).parameters = [professor |-> "Smith", term |-> "fall"]
    /\ OnlyToolCall(1, 4).function = get_course_information
    /\ OnlyToolCall(1, 4).parameters = EmptyDict

\* ------------------------------------------------------------------------
\* C16
\* ------------------------------------------------------------------------

\* C16: whatever the shapes of the trace events of one invocation (absent
\* optional fields, unknown invocation and observation kinds, completions
\* whose traceId was never registered or was registered by a start of the
\* other kind), _parse_trace_event returns a record for every one of them
\* and the stream never ends in an exception.
C16_NormalizerNeverRaises ==
    \A c \in Calls :
        /\ pc[c] /= "error"
        /\ \A i \in Positions(c) :
              IsTraceEvent(consumed[c][i]) => Len(parsed[c][i]) = 1

\* ------------------------------------------------------------------------
\* C17
\* ------------------------------------------------------------------------

\* The event the step makes the call consume, if it makes it consume one.
Consumes(c) == Len(consumed'[c]) = Len(consumed[c]) + 1

\* A step that consumes a trace event with a failure payload leaves both
\* tables as they were.
C17_FailureStep ==
    \A c \in Calls :
        (Consumes(c) /\ HasFailure(consumed'[c][Len(consumed'[c])])) =>
            /\ collaborator_invocation_counts' = collaborator_invocation_counts
            /\ action_group_invocations' = action_group_invocations

\* The record returned for a failure trace is the failed record, with
\* nothing of an orchestration payload carried alongside.
C17_FailureRecord ==
    \A c \in Calls : \A i \in Positions(c) :
        HasFailure(consumed[c][i]) =>
            /\ Len(parsed[c][i]) = 1
            /\ parsed[c][i][1].status = "failed"
            /\ DOMAIN parsed[c][i][1] \cap
                   {"calling_collaborator", "collaborator_response",
                    "tool_calls", "input_text"} = {}

\* C17: a trace event with a failure payload leaves the counter table and
\* the pending table unchanged, and the failure takes precedence over an
\* orchestration payload in the same event: a start or completion carried
\* alongside increments no counter, registers no traceId and consumes no
\* pending entry.
C17_FailureFrame == []C17_FailureRecord /\ [][C17_FailureStep]_vars

\* Tool t1 was started; a failure carrying a completion of t1 and a failure
\* carrying a collaborator start followed; then the completion of t1 still
\* found its entry, and no counter exists.
C17_Witness ==
    /\ Len(consumed[1]) = 4
    /\ IsToolStart(consumed[1][1], "t1")
    /\ consumed[1][2] = WithFailure(ToolDoneEvent("t1"), "tool crashed")
    /\ consumed[1][3] =
          WithFailure(CollabStartEvent("JobMarketAgent"), "agent unavailable")
    /\ AnswersStart(1, 1, 4)
    /\ OnlyToolCall(1, 4).trace_id = "t1"
    /\ collaborator_invocation_counts = EmptyDict
    /\ parsed[1][2][1].status = "failed"

\* ------------------------------------------------------------------------
\* C20
\* ------------------------------------------------------------------------

\* The outcome of the call's latest invoke_agent attempt.
LastTry(c) == IF Len(tries[c]) = 0 THEN "none" ELSE tries[c][Len(tries[c])]

\* The call raised while it was iterating the response stream.
FailedMidStream(c) == pc[c] = "error" /\ LastTry(c) = "ok"

\* An attempt follows only a throttled attempt; a non-throttling failure is
\* the last attempt, raises at once and is followed by no sleep; and a call
\* that failed mid-stream has sent the output of every event it consumed
\* before the error.
C20_RetryShape ==
    \A c \in Calls :
        /\ \A i \in 1..(Len(tries[c]) - 1) : tries[c][i] = "throttled"
        /\ LastTry(c) = "failed" =>
              /\ pc[c] = "error"
              /\ Len(slept[c]) = Len(tries[c]) - 1
        /\ tries[c] = <<"failed">> => slept[c] = <<>>
        /\ FailedMidStream(c) =>
              /\ Len(yielded[c]) = Len(consumed[c])
              /\ SubSeq(sse[c], 1, Len(sse[c]) - 1) =
                     <<SessionFrame(c)>> \o
                     [k \in 1..Len(Flatten(yielded[c])) |->
                         SseFrame(Flatten(yielded[c])[k])]
              /\ sse[c][Len(sse[c])].data.type = "error"

\* Once the response stream is open, and after the call has ended, no
\* further invoke_agent attempt and no further sleep is made.
C20_NoRetryStep ==
    \A c \in Calls :
        pc[c] \in {"streaming"} \cup Ended =>
            /\ tries'[c] = tries[c]
            /\ slept'[c] = slept[c]

\* C20: only throttling at initiation is retried: a non-throttling failure
\* of invoke_agent propagates from its one attempt with no sleep, and a
\* failure raised while the response stream is iterated propagates with no
\* further attempt, after the output of all earlier events was emitted.
C20_RetryOnlyThrottling == []C20_RetryShape /\ [][C20_NoRetryStep]_vars

\* A request whose stream opened at the first attempt failed after two
\* events, one of which had produced output: session, that output, error.
C20_Witness ==
    \E c \in Calls :
        /\ tries[c] = <<"ok">>
        /\ slept[c] = <<>>
        /\ pc[c] = "error"
        /\ Len(consumed[c]) = 2
        /\ Len(out[c]) = 1
        /\ Len(sse[c]) = 3
        /\ sse[c][3] = ErrorFrame("EventStreamError")

\* ------------------------------------------------------------------------
\* C21
\* ------------------------------------------------------------------------

\* The number of throttled attempts among the first n attempts of call c.
RECURSIVE ThrottledAmong(_, _)
ThrottledAmong(c, n) ==
    IF n = 0 THEN 0
    ELSE ThrottledAmong(c, n - 1) +
         (IF tries[c][n] = "throttled" THEN 1 ELSE 0)

\* The claim as stated: every throttled attempt is followed by a sleep, the
\* one after the k-th failed attempt lasting 2^(k-1) seconds, so that a
\* call throttled to the end has slept 1s, 2s and 4s.
C21_SleepAfterEveryAttempt ==
    \A c \in Calls :
        /\ Len(tries[c]) <= max_retries
        /\ \A k \in 1..Len(tries[c]) :
            tries[c][k] = "throttled" =>
                /\ Len(slept[c]) >= k
                /\ slept[c][k] = 2 ^ (k - 1)

\* C21: stream initiation makes at most 3 attempts; a sleep follows each
\* throttled attempt but the last allowed one, the sleep after the k-th
\* failed attempt lasting 2^(k-1) seconds, which gives 1s and 2s; the third
\* throttled attempt raises without a sleep, so no 4s delay occurs.
C21_BackoffSchedule ==
    \A c \in Calls :
        /\ Len(tries[c]) <= max_retries
        /\ Len(slept[c]) =
               ThrottledAmong(c, IF Len(tries[c]) < max_retries
                                 THEN Len(tries[c]) ELSE max_retries - 1)
        /\ \A k \in 1..Len(slept[c]) :
            /\ tries[c][k] = "throttled"
            /\ slept[c][k] = 2 ^ (k - 1)
        /\ \A k \in 1..Len(slept[c]) : slept[c][k] \in {1, 2}

\* A request throttled at all three attempts: it slept 1s and 2s and then
\* ended in error.
C21_Witness ==
    \E c \in Calls :
        /\ tries[c] = <<"throttled", "throttled", "throttled">>
        /\ slept[c] = <<1, 2>>
        /\ pc[c] = "error"
        /\ sse[c][Len(sse[c])] = ErrorFrame("throttlingException")

\* ------------------------------------------------------------------------
\* C22
\* ------------------------------------------------------------------------

\* No invoke_supervisor_stream call is between its start and its end.
NoInvokeRunning ==
    \A c \in Calls : pc[c] \notin {"invoking", "sleeping", "streaming"}

\* C22: both tables are empty when an invoke call starts, and once the call
\* has ended (stream exhausted, error, or consumer gone) the orchestrator
\* holds no counter and no pending entry of it, dangling starts included.
C22_TablesDiscardedAtEnd ==
    /\ \A c \in Calls :
          (pc[c] = "invoking" /\ tries[c] = <<>>) =>
              /\ collaborator_invocation_counts = EmptyDict
              /\ action_group_invocations = EmptyDict
    /\ NoInvokeRunning =>
          /\ collaborator_invocation_counts = EmptyDict
          /\ action_group_invocations = EmptyDict

\* ------------------------------------------------------------------------
\* SpecFallback: one request whose upstream delivers TOOL completions that
\* no pending entry answers, with output texts of every keyword class.
\* ------------------------------------------------------------------------

\* The bound on the upstream events of a behaviour of SpecFallback.
FallbackLen == 2

TextAJob == <<"a"," ","J","o","b">>
TextHiringCourse == <<"H","i","r","i","n","g"," ","c","o","u","r","s","e">>
TextCourseProject == <<"C","o","u","r","s","e"," ","p","r","o","j","e","c","t">>
TextCsGithub == <<"C","S"," ","g","i","t","h","u","b">>
TextProjectNebula == <<"P","r","o","j","e","c","t"," ","n","e","b","u","l","a">>
TextGithubProfessor == <<"G","i","t","H","u","b"," ","P","r","o","f","e","s","s","o","r">>
TextNebula == <<"N","E","B","U","L","A">>
TextProfessor == <<"p","r","o","f","e","s","s","o","r">>
TextOk == <<"o","k">>

\* The output texts the lost completions carry.
FallbackTexts ==
    { TextAJob,
      TextHiringCourse,
      TextCourseProject,
      TextCsGithub,
      TextProjectNebula,
      TextGithubProfessor,
      TextNebula,
      TextProfessor,
      TextOk }

\* A TOOL completion with this output text and a traceId nothing started.
LostDoneEvent(text) ==
    OrchEvent([observation |->
        [type |-> "ACTION_GROUP",
         traceId |-> "t9",
         actionGroupInvocationOutput |-> [text |-> text]]])

\* A TOOL completion that carries no traceId.
NoTraceIdDoneEvent(text) ==
    OrchEvent([observation |->
        [type |-> "ACTION_GROUP",
         actionGroupInvocationOutput |-> [text |-> text]]])

\* A TOOL completion with neither a traceId nor an output payload.
BareToolDoneEvent == OrchEvent([observation |-> [type |-> "ACTION_GROUP"]])

FallbackEvents ==
    { ToolStartEvent("t1"), ToolDoneEvent("t1"), BareToolDoneEvent,
      NoTraceIdDoneEvent(TextHiringCourse) }
    \cup { LostDoneEvent(text) : text \in FallbackTexts }

NextFallback ==
    \/ StartRequest(1)
    \/ BeginInvoke(1)
    \/ InvokeOk(1)
    \/ \E e \in FallbackEvents :
          Len(consumed[1]) < FallbackLen /\ Deliver(1, e)
    \/ StreamEnd(1)

SpecFallback == Init /\ [][NextFallback]_vars

\* ------------------------------------------------------------------------
\* C23
\* ------------------------------------------------------------------------

\* The display name the claim gives for each output text: the first class,
\* in the order job/hiring, course/"cs ", project/github, nebula/professor,
\* that has a keyword in the text, whatever the case; Lambda Tool otherwise.
NameClaimedFor(text) ==
    CASE text = TextAJob -> JobMarketTools
      [] text = TextHiringCourse -> JobMarketTools
      [] text = TextCourseProject -> CourseCatalogTools
      [] text = TextCsGithub -> CourseCatalogTools
      [] text = Cs1337Found -> CourseCatalogTools
      [] text = TextProjectNebula -> ProjectTools
      [] text = TextGithubProfessor -> ProjectTools
      [] text = TextNebula -> NebulaApiTools
      [] text = TextProfessor -> NebulaApiTools
      [] text = TextOk -> LambdaTool
      [] text = <<>> -> LambdaTool

\* The step makes call c consume a TOOL completion whose traceId is absent
\* or is not a key of the pending table.
ConsumesLostDone(c) ==
    /\ Consumes(c)
    /\ LET e == consumed'[c][Len(consumed'[c])]
       IN  /\ IsToolDone(e)
           /\ \/ ~Truthy(ToolDoneTraceId(e))
              \/ ToolDoneTraceId(e) \notin DOMAIN action_group_invocations

\* Such a step yields one trace event whose record holds exactly one
\* tool-call entry, made of type, name, status completed and the result
\* "Completed <name>" only, and leaves the pending table as it was.
C23_FallbackStep ==
    \A c \in Calls :
        ConsumesLostDone(c) =>
            LET e == consumed'[c][Len(consumed'[c])]
                ys == yielded'[c][Len(yielded'[c])]
                name == NameClaimedFor(ToolDoneText(e))
            IN  /\ action_group_invocations' = action_group_invocations
                /\ Len(ys) = 1
                /\ ys[1].type = "trace"
                /\ Len(Get(ys[1].data, "tool_calls", <<>>)) = 1
                /\ LET entry == ys[1].data.tool_calls[1]
                   IN  /\ DOMAIN entry = {"type", "name", "status", "result"}
                       /\ entry.type = "action_group"
                       /\ entry.status = "completed"
                       /\ entry.name = name
                       /\ entry.result = CompletedPrefix \o name

\* C23: a TOOL completion whose traceId is absent or not pending yields
\* exactly one completed tool-call entry holding only a display name and
\* the result "Completed <name>", the name chosen case-insensitively from
\* the output text by first match in the order job/hiring, course/"cs ",
\* project/github, nebula/professor, else Lambda Tool; the pending table is
\* unchanged.
C23_LostCorrelationFallback == [][C23_FallbackStep]_vars

\* With t1 pending, a completion for the unknown t9 whose text names both
\* hiring and course was answered by the Job Market Tools entry, and t1 is
\* still pending.
C23_Witness ==
    /\ Len(consumed[1]) = 2
    /\ consumed[1][1] = ToolStartEvent("t1")
    /\ consumed[1][2] = LostDoneEvent(TextHiringCourse)
    /\ DOMAIN action_group_invocations = {"t1"}
    /\ Len(yielded[1][2]) = 1
    /\ yielded[1][2][1].data.tool_calls[1].name = JobMarketTools
    /\ yielded[1][2][1].data.tool_calls[1].result =
           CompletedPrefix \o JobMarketTools

\* ------------------------------------------------------------------------
\* C24
\* ------------------------------------------------------------------------

\* The prompt of call c had its user context held value for field key.
PromptWith(c, key, value) ==
    _build_input_text(goal[c], Put(user_context[c], key, value))

\* The prompt of call c had its user context lacked the field key.
PromptWithout(c, key) ==
    _build_input_text(goal[c], Del(user_context[c], key))

\* C24: the prompt is built from the goal and the user context alone, a
\* field that is empty or absent contributes nothing to it, and every
\* field whose value is non-empty contributes a rendered line.
C24_PromptConstruction ==
    \A c \in Calls :
        (RequestSent(c) /\ NonEmpty(user_context[c])) =>
            LET text == invoke_params[c].inputText
            IN  /\ text = _build_input_text(goal[c], user_context[c])
                /\ SubSeq(text, 2, Len(text)) = goal[c]
                /\ \A key \in DOMAIN user_context[c] :
                      ~Truthy(user_context[c][key]) =>
                          /\ PromptWith(c, key, None) = text
                          /\ PromptWithout(c, key) = text
                /\ \A key \in DOMAIN user_context[c] :
                      Truthy(user_context[c][key]) =>
                          PromptWith(c, key, "") /= text

\* ------------------------------------------------------------------------
\* SpecTerminates: SpecExits with the scheduling the event loop gives a
\* call that is awaiting: invoke_agent returns or raises, asyncio.sleep
\* returns, and the upstream stream, being finite, ends or fails after the
\* events it delivers.
\* ------------------------------------------------------------------------

InvokeReturns == InvokeOk(1) \/ InvokeThrottled(1) \/ InvokeFailed(1)

\* The upstream stream is finite: iterating it ends or fails.
UpstreamEnds == StreamEnd(1) \/ StreamError(1)

SpecTerminates ==
    /\ SpecExits
    /\ WF_vars(InvokeReturns)
    /\ WF_vars(SleepReturns(1))
    /\ WF_vars(UpstreamEnds)

\* ------------------------------------------------------------------------
\* C25
\* ------------------------------------------------------------------------

\* Initiation makes at most 3 attempts, every upstream event taken was
\* parsed and answered once, in order, and the output sequence holds no
\* terminal event of the orchestrator's own.
C25_Bounded ==
    \A c \in Calls :
        /\ Len(tries[c]) <= max_retries
        /\ Len(parsed[c]) = Len(consumed[c])
        /\ Len(yielded[c]) = Len(consumed[c])
        /\ out[c] = Flatten(yielded[c])
        /\ \A i \in 1..Len(out[c]) : out[c][i].type \in {"chunk", "trace"}

\* A call that has ended takes no further attempt, consumes no further
\* event, yields nothing more and does not leave its end state.
C25_NotResumable ==
    \A c \in Calls :
        pc[c] \in Ended =>
            /\ pc'[c] = pc[c]
            /\ tries'[c] = tries[c]
            /\ consumed'[c] = consumed[c]
            /\ out'[c] = out[c]

\* Every call that has started eventually ends.
C25_EventuallyEnds ==
    \A c \in Calls : (pc[c] \in InsideAsyncWith) ~> (pc[c] \in Ended)

\* C25: with a finite upstream stream and every sleep and upstream delivery
\* returning, every invoke_supervisor_stream call eventually terminates:
\* at most 3 attempts, each upstream event consumed exactly once, and once
\* the upstream is exhausted the output sequence ends with no terminal
\* event of its own and is not resumed.
C25_Termination ==
    /\ C25_EventuallyEnds
    /\ []C25_Bounded
    /\ [][C25_NotResumable]_vars

\* A call that was throttled once, then read two upstream events to the
\* end of the stream: it ended with the output of those events only.
C25_Witness ==
    /\ pc[1] = "done"
    /\ tries[1] = <<"throttled", "ok">>
    /\ Len(consumed[1]) = 2
    /\ Len(out[1]) = 1
    /\ out[1][1].type = "chunk"
    /\ sse[1][Len(sse[1])] = DoneFrame

\* ------------------------------------------------------------------------
\* SpecPending: one request whose upstream starts the traceId t1 twice with
\* different fields, completes it with either kind of completion, and mixes
\* in a knowledge-base lookup, reasoning, collaborator events and a lost
\* completion.
\* ------------------------------------------------------------------------

\* The bound on the upstream events of a behaviour of SpecPending.
PendingLen == 3

PendingEvents ==
    { ToolStartEvent("t1"),
      ToolStartWithEvent("t1", get_professor_information, ProfessorParams),
      ToolDoneEvent("t1"),
      KbStartEvent("t3"),
      KbDoneEvent("t3"),
      KbDoneEvent("t1"),
      ReasoningEvent("Let me check course data"),
      CollabStartEvent("CourseAgent"),
      CollabDoneEvent("CourseAgent"),
      LostToolDoneEvent }

NextPending ==
    \/ StartRequest(1)
    \/ BeginInvoke(1)
    \/ InvokeOk(1)
    \/ \E e \in PendingEvents :
          Len(consumed[1]) < PendingLen /\ Deliver(1, e)
    \/ StreamEnd(1)

SpecPending == Init /\ [][NextPending]_vars

\* ------------------------------------------------------------------------
\* C26
\* ------------------------------------------------------------------------

\* Position i holds the latest start of its traceId among the events the
\* call has consumed.
IsLatestStart(c, i) ==
    /\ IsSubStart(consumed[c][i])
    /\ \A k \in (i + 1)..Len(consumed[c]) :
          ~(/\ IsSubStart(consumed[c][k])
            /\ StartTraceId(consumed[c][k]) = StartTraceId(consumed[c][i]))

\* The traceIds whose latest start no matched completion has answered.
StartedUnanswered(c) ==
    {StartTraceId(consumed[c][i]) :
        i \in {k \in Positions(c) :
                 /\ IsLatestStart(c, k)
                 /\ \A j \in (k + 1)..Len(consumed[c]) :
                       ~AnswersStart(c, k, j)}}

\* The keys of the pending table are the traceIds started and not answered
\* since their latest start.
C26_PendingKeys ==
    pc[1] \in {"streaming", "done", "error"} =>
        DOMAIN action_group_invocations = StartedUnanswered(1)

\* A step that consumes neither a registrable start nor a completion of a
\* pending traceId leaves the table as it was; a start for a pending
\* traceId keeps the set of keys and replaces the entry by its own fields.
C26_PendingStep ==
    Consumes(1) =>
        LET e == consumed'[1][Len(consumed'[1])]
            T == StartTraceId(e)
            ys == yielded'[1][Len(yielded'[1])]
        IN  /\ ( /\ ~IsSubStart(e)
                 /\ ~( /\ IsSubDone(e)
                       /\ ToolDoneTraceId(e) \in DOMAIN action_group_invocations) )
               => action_group_invocations' = action_group_invocations
            /\ (IsSubStart(e) /\ T \in DOMAIN action_group_invocations) =>
                  /\ DOMAIN action_group_invocations' =
                         DOMAIN action_group_invocations
                  /\ \A t \in DOMAIN action_group_invocations \ {T} :
                        action_group_invocations'[t] = action_group_invocations[t]
                  /\ Len(ys) = 1
                  /\ Len(Get(ys[1].data, "tool_calls", <<>>)) = 1
                  /\ StoresStartFields(action_group_invocations'[T], e,
                                       ys[1].data.tool_calls[1])

\* C26: at every point of an invocation a traceId T is a key of the pending
\* table exactly when a TOOL or KNOWLEDGE_LOOKUP start with T and a
\* non-empty payload was processed and no matched completion for T followed
\* the latest such start; reasoning, collaborator events and fallback
\* completions leave the keys alone, and a repeated start for a pending T
\* overwrites its entry.
C26_PendingTableInvariant == []C26_PendingKeys /\ [][C26_PendingStep]_vars

\* t1 was started as get_course_information and started again as
\* get_professor_information before any completion: one entry is pending
\* and it holds the second start's function.
C26_Witness ==
    /\ Len(consumed[1]) = 2
    /\ consumed[1][1] = ToolStartEvent("t1")
    /\ consumed[1][2] =
           ToolStartWithEvent("t1", get_professor_information, ProfessorParams)
    /\ DOMAIN action_group_invocations = {"t1"}
    /\ action_group_invocations["t1"].function = get_professor_information

\* ------------------------------------------------------------------------
\* SpecSubAgent: one request whose upstream delivers traces emitted from
\* inside collaborators (collaboratorName set): reasoning, tool events,
\* failures and collaborator completions, for started and never started
\* names.
\* ------------------------------------------------------------------------

\* The bound on the upstream events of a behaviour of SpecSubAgent.
SubAgentLen == 3

\* The payload of an event built by OrchEvent.
OrchPayload(e) == e.trace.trace.orchestrationTrace

SubAgentEvents ==
    { CollabStartEvent("JobMarketAgent"),
      CollabStartEvent("CourseAgent"),
      CollabDoneEvent("JobMarketAgent"),
      ReasoningEvent("Let me check course data"),
      CollabTraceEvent("CourseAgent",
                       [rationale |-> [text |-> "Searching the catalog"]]),
      CollabTraceEvent("ProjectAgent",
                       [rationale |-> [text |-> "Listing repositories"]]),
      CollabTraceEvent("CourseAgent", OrchPayload(ToolStartEvent("t1"))),
      CollabTraceEvent("CourseAgent", OrchPayload(ToolDoneEvent("t1"))),
      WithFailure(CollabTraceEvent("CourseAgent", EmptyDict), "agent crashed"),
      CollabTraceEvent("CourseAgent",
                       OrchPayload(CollabDoneEvent("JobMarketAgent"))),
      CollabTraceEvent("CourseAgent",
                       OrchPayload(CollabDoneEvent("ProjectAgent"))) }

NextSubAgent ==
    \/ StartRequest(1)
    \/ BeginInvoke(1)
    \/ InvokeOk(1)
    \/ \E e \in SubAgentEvents :
          Len(consumed[1]) < SubAgentLen /\ Deliver(1, e)
    \/ StreamEnd(1)

SpecSubAgent == Init /\ [][NextSubAgent]_vars

\* ------------------------------------------------------------------------
\* C27
\* ------------------------------------------------------------------------

\* The collaboratorName set next to the trace payload of the event.
OuterName(e) == Get(Get(e, "trace", EmptyDict), "collaboratorName", None)

\* C27: a completed collaborator record that carries an agent_call_id
\* carries one that names the collaborator of its collaborator_response;
\* a completion for a never started Y on a trace of a started X does not
\* carry X's call id.
C27_CallIdAgreement ==
    \A c \in Calls : \A i \in Positions(c) :
        ( /\ IsCollabDone(consumed[c][i])
          /\ Len(parsed[c][i]) = 1
          /\ "agent_call_id" \in DOMAIN parsed[c][i][1] ) =>
            LET rec == parsed[c][i][1]
                Y == rec.collaborator_response.agent
            IN  \E k \in 1..Len(consumed[c]) :
                    rec.agent_call_id =
                        session_id(c) \o "_" \o Y \o "_" \o ToString(k)

\* ------------------------------------------------------------------------
\* C28
\* ------------------------------------------------------------------------

UnregisteredLen == 3

\* A TOOL start whose input payload is empty.
EmptyToolStartEvent(trace_id) ==
    OrchEvent([invocationInput |->
        [invocationType |-> "ACTION_GROUP",
         traceId |-> trace_id,
         actionGroupInvocationInput |-> EmptyDict]])

\* A KNOWLEDGE_LOOKUP start that carries no traceId.
KbStartNoTraceIdEvent ==
    OrchEvent([invocationInput |->
        [invocationType |-> "KNOWLEDGE_BASE",
         knowledgeBaseLookupInput |->
            [knowledgeBaseId |-> KbCourseCatalog,
             text |-> "prerequisites of CS 3345"]]])

\* A KNOWLEDGE_LOOKUP start that carries no input payload.
EmptyKbStartEvent(trace_id) ==
    OrchEvent([invocationInput |->
        [invocationType |-> "KNOWLEDGE_BASE", traceId |-> trace_id]])

\* A TOOL start without payload in an event that also carries reasoning.
ReasonedEmptyToolStartEvent(trace_id) ==
    OrchEvent([rationale |-> [text |-> "Calling the API"],
               invocationInput |->
                  [invocationType |-> "ACTION_GROUP", traceId |-> trace_id]])

UnregisteredEvents ==
    { ToolStartNoTraceIdEvent,
      EmptyToolStartEvent("t1"),
      KbStartNoTraceIdEvent,
      EmptyKbStartEvent("t3"),
      ReasonedEmptyToolStartEvent("t1"),
      ToolStartEvent("t1"),
      ToolDoneEvent("t1"),
      KbDoneEvent("t3"),
      NoTraceIdDoneEvent(TextOk) }

NextUnregistered ==
    \/ StartRequest(1)
    \/ BeginInvoke(1)
    \/ InvokeOk(1)
    \/ \E e \in UnregisteredEvents :
          Len(consumed[1]) < UnregisteredLen /\ Deliver(1, e)
    \/ StreamEnd(1)

SpecUnregistered == Init /\ [][NextUnregistered]_vars

\* ------------------------------------------------------------------------
\* C29
\* ------------------------------------------------------------------------

\* A TOOL or KNOWLEDGE_LOOKUP start with no traceId or an empty payload.
IsUnregistrableStart(e) ==
    \/ /\ Get(InvOf(e), "invocationType", None) = "ACTION_GROUP"
       /\ \/ StartTraceId(e) \in {None, ""}
          \/ ActionInput(e) = EmptyDict
    \/ /\ Get(InvOf(e), "invocationType", None) = "KNOWLEDGE_BASE"
       /\ \/ StartTraceId(e) \in {None, ""}
          \/ KbInput(e) = EmptyDict

\* The event carries reasoning text.
HasReasoning(e) ==
    Get(Get(OrchOf(e), "rationale", EmptyDict), "text", None) \notin {None, ""}

\* A step that consumes an unregistrable start leaves the pending table as
\* it was, puts no tool-call entry in the record, and yields nothing unless
\* the event carries reasoning.
C29_UnregistrableStep ==
    \A c \in Calls :
        (Consumes(c) /\ IsUnregistrableStart(consumed'[c][Len(consumed'[c])])) =>
            LET e == consumed'[c][Len(consumed'[c])]
                rec == parsed'[c][Len(parsed'[c])]
                ys == yielded'[c][Len(yielded'[c])]
            IN  /\ action_group_invocations' = action_group_invocations
                /\ Len(rec) = 1
                /\ "tool_calls" \notin DOMAIN rec[1]
                /\ ~HasReasoning(e) => ys = <<>>
                /\ HasReasoning(e) =>
                      /\ Len(ys) = 1
                      /\ "reasoning" \in DOMAIN ys[1].data

\* A completion that follows an unregistrable start of its traceId, no
\* registrable start of that traceId having come before it, holds the
\* fallback entry: a display name and a generic result, status completed.
C29_LaterCompletion ==
    \A c \in Calls : \A i \in Positions(c) : \A j \in Positions(c) :
        ( /\ i < j
          /\ IsUnregistrableStart(consumed[c][i])
          /\ IsSubDone(consumed[c][j])
          /\ ToolDoneTraceId(consumed[c][j]) = StartTraceId(consumed[c][i])
          /\ \A k \in 1..(j - 1) :
                ~(/\ IsSubStart(consumed[c][k])
                  /\ StartTraceId(consumed[c][k]) =
                         ToolDoneTraceId(consumed[c][j])) ) =>
            /\ DOMAIN OnlyToolCall(c, j) = {"type", "name", "status", "result"}
            /\ OnlyToolCall(c, j).status = "completed"

\* C29: a TOOL or KNOWLEDGE_LOOKUP start with no traceId or an empty
\* payload adds nothing to the pending table and no tool-call entry to the
\* record, so without reasoning it produces no output event, and a later
\* completion for it takes the fallback path.
C29_UnregistrableStarts ==
    []C29_LaterCompletion /\ [][C29_UnregistrableStep]_vars

\* How many of the records emitted so far hold a tool-call entry of this
\* status.
NumToolCalls(c, status) ==
    Cardinality({i \in Positions(c) :
                    Get(OnlyToolCall(c, i), "status", None) = status})

\* A TOOL start without payload produced no output, and the completion of
\* its traceId then produced a fallback entry: one completed entry was
\* emitted and no calling one.
C29_Witness ==
    /\ Len(consumed[1]) = 2
    /\ consumed[1][1] = EmptyToolStartEvent("t1")
    /\ consumed[1][2] = ToolDoneEvent("t1")
    /\ yielded[1][1] = <<>>
    /\ "trace_id" \notin DOMAIN OnlyToolCall(1, 2)
    /\ NumToolCalls(1, "calling") = 0
    /\ NumToolCalls(1, "completed") = 1

\* ------------------------------------------------------------------------
\* AgentCoreRuntime (agentcore_runtime.py): the memory helper.  Its public
\* calls are synchronous, so each is one step.
\* ------------------------------------------------------------------------

\* The bound on the public calls of a behaviour of SpecRuntime.
MaxRuntimeOps == 3

\* AgentEvent(session_id, actor, role, text)
AgentEvent(session, actor, role, text) ==
    [session_id |-> session, actor |-> actor, role |-> role, text |-> text]

\* The event lists record_events is called with: none, one event, two
\* actors of one session with an event without text, and three batches
\* with an event that names no actor.
RuntimeEventLists ==
    { <<>>,
      << AgentEvent("s1", "Student", "USER", "SWE roles") >>,
      << AgentEvent("s1", "Student", "USER", "SWE roles"),
         AgentEvent("s1", "Planner", "ASSISTANT", ""),
         AgentEvent("s1", "Planner", "ASSISTANT", "Take CS 3345"),
         AgentEvent("s1", "Student", "USER", "and internships") >>,
      << AgentEvent("s1", "Student", "USER", "SWE roles"),
         AgentEvent("s2", "Student", "USER", "data roles"),
         AgentEvent("s2", "", "ASSISTANT", "Take CS 4375") >> }

\* The goals and agent outputs the convenience calls are given.
RuntimeTexts == {"", "SWE roles"}

\* The property available.
available ==
    _available /\ _runtime_client /= None /\ _memory_id /= None

\* _make_session_key and the key.split("::", 1) that undoes it: the session
\* and the actor, "agent" standing in for an empty actor.
_make_session_key(session, actor) ==
    <<session, IF actor = "" THEN "agent" ELSE actor>>

\* The keys of batches after the first n events, in insertion order; an
\* event without text is skipped.
RECURSIVE BatchKeys(_, _)
BatchKeys(events, n) ==
    IF n = 0 THEN <<>>
    ELSE LET prev == BatchKeys(events, n - 1)
             key == _make_session_key(events[n].session_id, events[n].actor)
         IN  IF events[n].text = "" \/ \E i \in 1..Len(prev) : prev[i] = key
             THEN prev
             ELSE Append(prev, key)

\* batches[key]: the events with text of that session and actor, in order.
BatchMessages(events, key) ==
    LET Belongs(e) == /\ e.text /= ""
                      /\ _make_session_key(e.session_id, e.actor) = key
    IN  SelectSeq(events, Belongs)

\* The create_event call made for the batch of this key.
CreateEventCall(events, key, ok) ==
    [memoryId |-> _memory_id,
     sessionId |-> key[1],
     actorId |-> key[2],
     roles |-> [i \in 1..Len(BatchMessages(events, key)) |->
                   BatchMessages(events, key)[i].role],
     failed |-> ~ok]

\* Mutant: the loop over the batches stops at the first failure.
SendBatchesStopAtFailure(events, outcomes) ==
    LET keys == BatchKeys(events, Len(events))
        stop == IF \E i \in 1..Len(keys) : ~outcomes[i]
                THEN CHOOSE i \in 1..Len(keys) :
                        /\ ~outcomes[i]
                        /\ \A j \in 1..(i - 1) : outcomes[j]
                ELSE Len(keys)
    IN  [i \in 1..stop |-> CreateEventCall(events, keys[i], outcomes[i])]

\* "for key, messages in batches.items()": one create_event call per batch,
\* whatever the outcome of the calls before it.
SendBatches(events, outcomes) ==
    LET keys == BatchKeys(events, Len(events))
    IN  [i \in 1..Len(keys) |-> CreateEventCall(events, keys[i], outcomes[i])]

\* The outcomes create_event may have for the batches of these events.
Outcomes(events) == [1..Len(BatchKeys(events, Len(events))) -> BOOLEAN]

\* The body of record_events: nothing without events or when unavailable;
\* otherwise the calls are made and a failure clears _available.
RecordEventsBody(events, outcomes) ==
    IF events = <<>> \/ ~available
           \/ _runtime_client = None \/ _memory_id = None
    THEN UNCHANGED <<_available, create_event_calls>>
    ELSE LET calls == SendBatches(events, outcomes)
         IN  /\ create_event_calls' = create_event_calls \o calls
             /\ _available' = IF \E i \in 1..Len(calls) : calls[i].failed
                              THEN FALSE ELSE _available

\* record_events(events)
record_events(events) ==
    /\ Len(runtime_ops) < MaxRuntimeOps
    /\ runtime_ops' = Append(runtime_ops,
                             [op |-> "record_events", events |-> events])
    /\ \E outcomes \in Outcomes(events) : RecordEventsBody(events, outcomes)
    /\ UNCHANGED <<_runtime_client, _memory_id>>
    /\ UNCHANGED <<tables, pc, goal, user_context, invoke_params,
                   runtime_client, tries, slept, consumed, parsed, yielded,
                   out, sse>>

\* The body of the two convenience calls: nothing for an empty text or
\* when unavailable, otherwise record_events with the one event.
RecordOneBody(event) ==
    IF event.text = "" \/ ~available
    THEN UNCHANGED <<_available, create_event_calls>>
    ELSE \E outcomes \in Outcomes(<<event>>) :
            RecordEventsBody(<<event>>, outcomes)

\* record_user_goal(session_id, goal)
record_user_goal(session, goal_text) ==
    LET event == AgentEvent(session, "Student", "USER", goal_text)
    IN  /\ Len(runtime_ops) < MaxRuntimeOps
        /\ runtime_ops' = Append(runtime_ops,
                                 [op |-> "record_user_goal",
                                  events |-> <<event>>])
        /\ RecordOneBody(event)
        /\ UNCHANGED <<_runtime_client, _memory_id>>
        /\ UNCHANGED <<tables, pc, goal, user_context, invoke_params,
                       runtime_client, tries, slept, consumed, parsed,
                       yielded, out, sse>>

\* record_agent_output(session_id, agent_name, text)
record_agent_output(session, agent_name, text) ==
    LET event == AgentEvent(session, agent_name, "ASSISTANT", text)
    IN  /\ Len(runtime_ops) < MaxRuntimeOps
        /\ runtime_ops' = Append(runtime_ops,
                                 [op |-> "record_agent_output",
                                  events |-> <<event>>])
        /\ RecordOneBody(event)
        /\ UNCHANGED <<_runtime_client, _memory_id>>
        /\ UNCHANGED <<tables, pc, goal, user_context, invoke_params,
                       runtime_client, tries, slept, consumed, parsed,
                       yielded, out, sse>>

\* The states __init__ and _bootstrap leave the runtime in: disabled or no
\* client; clients but no memory id; connected to a memory.
InitMemory ==
    /\ \/ /\ _available = FALSE
          /\ _runtime_client = None
          /\ _memory_id = None
       \/ /\ _available = FALSE
          /\ _runtime_client = "bedrock-agentcore"
          /\ _memory_id = None
       \/ /\ _available = TRUE
          /\ _runtime_client = "bedrock-agentcore"
          /\ _memory_id = "mem-1"
    /\ create_event_calls = <<>>
    /\ runtime_ops = <<>>

\* ------------------------------------------------------------------------
\* SpecRuntime: the calls made on one AgentCoreRuntime after construction,
\* create_event succeeding or failing at each call.
\* ------------------------------------------------------------------------

NextRuntime ==
    \/ \E events \in RuntimeEventLists : record_events(events)
    \/ \E text \in RuntimeTexts : record_user_goal("s1", text)
    \/ \E text \in RuntimeTexts : record_agent_output("s1", "Planner", text)

InitRuntime == InitServer /\ InitMemory

SpecRuntime == InitRuntime /\ [][NextRuntime]_vars

\* ------------------------------------------------------------------------
\* C30
\* ------------------------------------------------------------------------

\* The (session, actor) pairs the events with text of a list belong to.
SessionActors(events) ==
    {<<events[i].session_id,
       IF events[i].actor = "" THEN "agent" ELSE events[i].actor>> :
        i \in {k \in 1..Len(events) : events[k].text /= ""}}

\* The create_event calls the step adds.
NewCalls ==
    SubSeq(create_event_calls', Len(create_event_calls) + 1,
           Len(create_event_calls'))

\* available implies a client and a memory id, and is false once a
\* create_event call has failed.
C30_AvailableShape ==
    /\ available => (_runtime_client /= None /\ _memory_id /= None)
    /\ (\E i \in 1..Len(create_event_calls) : create_event_calls[i].failed)
          => ~available

\* Nothing makes an unavailable runtime available again, and a call on an
\* unavailable runtime makes no create_event call; a record_events call on
\* an available runtime attempts every one of its (session, actor)
\* batches, whether or not an earlier one of them failed.
C30_LatchStep ==
    /\ ~available => /\ ~available'
                     /\ create_event_calls' = create_event_calls
    /\ ( /\ available
         /\ Len(runtime_ops') = Len(runtime_ops) + 1
         /\ runtime_ops'[Len(runtime_ops')].op = "record_events" ) =>
            LET events == runtime_ops'[Len(runtime_ops')].events
            IN  /\ Len(NewCalls) = Cardinality(SessionActors(events))
                /\ {<<NewCalls[i].sessionId, NewCalls[i].actorId>> :
                       i \in 1..Len(NewCalls)} = SessionActors(events)

\* C30: available is true only with a runtime client and a memory id; once
\* a create_event call of record_events has failed, available is false in
\* every later state and every later record_events, record_user_goal or
\* record_agent_output call returns without calling create_event, while
\* the remaining batches of the call in which the failure occurred are
\* still attempted.
C30_AvailabilityLatch == []C30_AvailableShape /\ [][C30_LatchStep]_vars

\* A record_events call with three batches whose first create_event failed
\* made all three calls; the record_user_goal call after it made none.
C30_Witness ==
    /\ Len(runtime_ops) = 2
    /\ runtime_ops[1].op = "record_events"
    /\ runtime_ops[2].op = "record_user_goal"
    /\ runtime_ops[2].events[1].text = "SWE roles"
    /\ Len(create_event_calls) = 3
    /\ create_event_calls[1].failed
    /\ ~create_event_calls[2].failed
    /\ ~available
    /\ _runtime_client /= None
    /\ _memory_id /= None

====
